---- MODULE Spec2Model ----
(***************************************************************************)
(* Balance reconciliation of the personal finance tracker.                 *)
(*                                                                         *)
(* The store holds three tables: banks (id -> balance), transactions       *)
(* (id -> type, amount, bank_id) and transfers (id -> from_bank_id,        *)
(* to_bank_id, amount).  The pages Transactions and Transfers change a     *)
(* ledger row and then adjust the balance of the bank(s) it references     *)
(* with separate store calls: a row write, a select of the balance, an     *)
(* update of the balance.  Every await of a handler is one step of the     *)
(* model, so that the store can be observed (and changed by another        *)
(* session) between two calls of one handler.                              *)
(*                                                                         *)
(* Money is counted in whole currency units.  The columns are              *)
(* DECIMAL(15, 2) and the amount inputs have step 0.01, so every stored    *)
(* value is a multiple of 0.01 far below 2^53 / 100: the double arithmetic *)
(* of the handlers followed by the column's rounding is exact on them, and *)
(* integer arithmetic models it.                                           *)
(***************************************************************************)
EXTENDS Integers, Sequences, FiniteSets, TLC

\* Bound of the model: the number of handler invocations that reach the store.
MaxOps == 3

\* Bound of the model: the number of store calls that fail.
MaxFailures == 1

\* Bound of the model: the number of credits the page Credits is opened on.
MaxCredits == 3

\* The sessions (browser tabs) of the one signed-in user.
Sessions == {1, 2}

\* The banks of the user and the balances they were created with.
BankIds == {"Checking", "Savings", "Cash"}

OpeningBalance == [Checking |-> 1000, Savings |-> 200, Cash |-> 30]

\* The values the forms are filled with.  The forms select among two of the
\* banks; the third is never referenced by a ledger row.
FormBanks == {"Checking", "Savings"}

Amounts == {200, 500}

Types == {"income", "expense"}

Categories == {"", "Other"}

\* formData of the Transactions page as submitted.
TxForms == [type : Types, amount : Amounts, category : Categories, bank_id : FormBanks]

\* formData of the Transfers page as submitted.
TrForms == [from_bank_id : FormBanks, to_bank_id : FormBanks, amount : Amounts]

\* The users of the store.  The sessions are signed in as SignedIn, and the
\* banks are SignedIn's.
Users == {"alice", "bob"}

SignedIn == "alice"

BankOwner == [b \in BankIds |-> SignedIn]

\* The Banks page before fetchBanks has answered: no bank listed, the dialog
\* closed, no bank being edited, the form as useState sets it (balance "0").  A
\* text is the sequence of its characters.
NoBanksPage ==
    [banks |-> << >>, open |-> FALSE, editingBank |-> {},
     formData |-> [balance |-> <<"0">>]]

\* No handler of the session is running.
NoFrame == [h |-> "none"]

VARIABLES
    banks,          \* table banks: id -> balance
    transactions,   \* table transactions: id -> [type, amount, bank_id]
    transfers,      \* table transfers: id -> [from_bank_id, to_bank_id, amount]
    nextId,         \* the next row id the store generates (ids are never reused)
    pc,             \* per session: the await its running handler is at
    frame,          \* per session: the locals of its running handler
    txList,         \* per session: state `transactions` of the Transactions page
    trList,         \* per session: state `transfers` of the Transfers page
    toast,          \* per session: the last notification shown
    ops,            \* handler invocations so far
    failures,       \* store calls that failed so far
    hist,           \* the last two completed handler invocations (observation only)
    credits,        \* table credits: id -> [person_name, amount, type]
    creditList,     \* per session: state `credits` of the Credits page
    owner,          \* user_id of the rows of transactions, transfers and credits
    response,       \* the answer to the last request made on the store directly
    sortedPersonTotals, \* per session: the summary the page Credits shows
    banksPage       \* per session: state banks, editingBank, formData of the Banks page

vars == <<banks, transactions, transfers, nextId, pc, frame, txList, trList, toast,
          ops, failures, hist, credits, creditList, owner, response,
          sortedPersonTotals, banksPage>>

\* What the page Credits reads and writes.
creditsPage == <<credits, creditList>>

store == <<banks, transactions, transfers, nextId>>

\* A handler has run a step for the user u: the row it inserted, if it inserted
\* one, has user_id u (user_id: user.id).
HandlerOf(u) ==
    /\ owner' = IF nextId' = nextId THEN owner ELSE owner @@ (nextId :> u)
    /\ UNCHANGED response

----------------------------------------------------------------------------
(* The store's operations, as the handlers use them.                       *)

\* .from("banks").select("balance").eq("id", id).single(): the row, or no data
\* when the call fails or no row has that id (the handlers drop the error).
SelectBalance(id, ok) ==
    IF ok /\ id \in DOMAIN banks THEN {[balance |-> banks[id]]} ELSE {}

\* Number(bankData?.balance || 0)
NumberOrZero(bankData) ==
    IF bankData = {} THEN 0 ELSE (CHOOSE r \in bankData : TRUE).balance

\* .from("banks").update({ balance }).eq("id", id): nothing is written when the
\* call fails or no row has that id; the handlers never look at the outcome.
UpdateBalance(id, balance, ok) ==
    IF ok /\ id \in DOMAIN banks THEN [banks EXCEPT ![id] = balance] ELSE banks

\* One call of the store, which succeeds (ok) or fails.
StoreCall(ok) ==
    /\ IF ok THEN TRUE ELSE failures < MaxFailures
    /\ failures' = IF ok THEN failures ELSE failures + 1

\* Row writes whose error is dropped like that of the balance calls.
RowWriteFails_ErrorDropped(bankRefs, ok) == ~(bankRefs \subseteq DOMAIN banks)

\* A row write on transactions or transfers fails when the call fails or a bank
\* it references does not exist (foreign keys of the migration).
RowWriteFails(bankRefs, ok) == ~ok \/ ~(bankRefs \subseteq DOMAIN banks)

\* The table without the row of that id (.delete().eq("id", id)).
Without(table, id) == [i \in DOMAIN table \ {id} |-> table[i]]

----------------------------------------------------------------------------
(* The arithmetic of the handlers.                                         *)

\* The create branch with the type ignored: every entry is added.
CreateNewBalance_AlwaysAdds(currentBalance, type, amount) == currentBalance + amount

\* The create branch refusing to go below zero.
CreateNewBalance_NeverNegative(currentBalance, type, amount) ==
    IF type = "income" THEN currentBalance + amount
    ELSE IF currentBalance - amount < 0 THEN 0 ELSE currentBalance - amount

\* newBalance of handleSubmit's create branch.
CreateNewBalance(currentBalance, type, amount) ==
    IF type = "income" THEN currentBalance + amount ELSE currentBalance - amount

\* The update branch without the reversal of the old effect.
UpdateNewBalance_NoReversal(currentBalance, oldType, oldAmount, newType, newAmount) ==
    IF newType = "income" THEN currentBalance + newAmount
                          ELSE currentBalance - newAmount

\* The update branch reversing the old effect with the new type.
UpdateNewBalance_ReversesByNewType(cur, oldType, oldAmount, newType, newAmount) ==
    LET reversed == IF newType = "income" THEN cur - oldAmount ELSE cur + oldAmount
    IN  IF newType = "income" THEN reversed + newAmount ELSE reversed - newAmount

\* currentBalance of handleSubmit's update branch: the old effect reversed, the
\* new effect applied.
UpdateNewBalance(currentBalance, oldType, oldAmount, newType, newAmount) ==
    LET reversed == IF oldType = "income" THEN currentBalance - oldAmount
                                          ELSE currentBalance + oldAmount
    IN  IF newType = "income" THEN reversed + newAmount ELSE reversed - newAmount

\* The delete that leaves the balance as it read it.
DeleteNewBalance_NoReversal(currentBalance, type, amount) == currentBalance

\* handleDelete with the two branches exchanged.
DeleteNewBalance_BranchesExchanged(currentBalance, type, amount) ==
    IF type = "income" THEN currentBalance + amount ELSE currentBalance - amount

\* newBalance of Transactions.handleDelete.
DeleteNewBalance(currentBalance, type, amount) ==
    IF type = "income" THEN currentBalance - amount ELSE currentBalance + amount

\* "Decrease from bank" adding the amount.
DecreaseFromBank_Adds(fromBankData, amount) == NumberOrZero(fromBankData) + amount

\* Transfers.handleSubmit, "Decrease from bank".
DecreaseFromBank(fromBankData, amount) == NumberOrZero(fromBankData) - amount

\* "Increase to bank" taking the amount.
IncreaseToBank_Subtracts(toBankData, amount) == NumberOrZero(toBankData) - amount

\* Transfers.handleSubmit, "Increase to bank".
IncreaseToBank(toBankData, amount) == NumberOrZero(toBankData) + amount

\* The restore of from_bank that takes the amount a second time.
RestoreFromBank_Subtracts(fromBankData, amount) == NumberOrZero(fromBankData) - amount

\* Transfers.handleDelete, "Restore from bank".
RestoreFromBank(fromBankData, amount) == NumberOrZero(fromBankData) + amount

\* "Restore to bank" adding the amount once more.
RestoreToBank_Adds(toBankData, amount) == NumberOrZero(toBankData) + amount

\* Transfers.handleDelete, "Restore to bank".
RestoreToBank(toBankData, amount) == NumberOrZero(toBankData) - amount

\* handleSubmit without the validation.
SameAccount_NeverChecked(formData) == FALSE

\* Transfers.handleSubmit's validation: "Cannot transfer to the same account".
SameAccount(formData) == formData.from_bank_id = formData.to_bank_id

\* handleSubmit without the check of the category.
CategoryMissing_NeverChecked(formData) == FALSE

\* Transactions.handleSubmit's validation: "Category required".
CategoryMissing(formData) == formData.category = ""

----------------------------------------------------------------------------
(* Observation: what a completed handler invocation did.                   *)

Last2(seq) == IF Len(seq) > 2 THEN Tail(seq) ELSE seq

\* The invocation `f` of a session ended with `outcome`, having touched row `id`.
Completed(f, outcome, id) ==
    Last2(Append(hist, [h |-> f.h, outcome |-> outcome, id |-> id, frame |-> f]))

\* The locals every handler starts with: the store as it was when it started.
Started(h) ==
    [h |-> h, preBanks |-> banks, preTransactions |-> transactions,
     preTransfers |-> transfers, failed |-> {}]

\* The locals `f` with the outcome of the call `call` noted.
Called(f, call, ok) == [f EXCEPT !.failed = IF ok THEN @ ELSE @ \cup {call}]

----------------------------------------------------------------------------
Init ==
    /\ banks = OpeningBalance
    /\ transactions = << >>
    /\ transfers = << >>
    /\ nextId = 1
    /\ pc = [s \in Sessions |-> "idle"]
    /\ frame = [s \in Sessions |-> NoFrame]
    /\ txList = [s \in Sessions |-> << >>]
    /\ trList = [s \in Sessions |-> << >>]
    /\ toast = [s \in Sessions |-> "none"]
    /\ ops = 0
    /\ failures = 0
    /\ hist = << >>
    /\ credits = << >>
    /\ creditList = [s \in Sessions |-> << >>]
    /\ owner = << >>
    /\ response = [user |-> SignedIn, data |-> {}]
    /\ sortedPersonTotals = [s \in Sessions |-> << >>]
    /\ banksPage = [s \in Sessions |-> NoBanksPage]

----------------------------------------------------------------------------
(* Page Transactions.                                                      *)

\* fetchData: on mount, and after every handler that succeeded.
Transactions_fetchData(s, ok) ==
    /\ StoreCall(ok)
    /\ pc[s] \in {"idle", "tx_fetch"}
    /\ pc' = [pc EXCEPT ![s] = "idle"]
    /\ IF ok
       THEN /\ txList' = [txList EXCEPT ![s] = transactions]
            /\ UNCHANGED toast
       ELSE /\ toast' = [toast EXCEPT ![s] = "Error loading data"]
            /\ UNCHANGED txList
    /\ UNCHANGED <<store, frame, trList, ops, hist>>
    /\ UNCHANGED creditsPage
    /\ HandlerOf(SignedIn)
    /\ UNCHANGED <<sortedPersonTotals, banksPage>>

\* handleSubmit with editingTransaction = null, up to the insert's answer.
Transactions_handleSubmit_insert(s, formData, ok) ==
    /\ StoreCall(ok)
    /\ pc[s] = "idle"
    /\ ops < MaxOps
    /\ LET f == Started("createTransaction")
                   @@ [formData |-> formData, id |-> nextId, currentBalance |-> 0]
       IN  IF CategoryMissing(formData)
           THEN /\ ok
                /\ toast' = [toast EXCEPT ![s] = "Category required"]
                /\ UNCHANGED <<store, pc, frame, ops, hist>>
           ELSE /\ ops' = ops + 1
                /\ IF RowWriteFails({formData.bank_id}, ok)
                   THEN /\ toast' = [toast EXCEPT ![s] = "Error"]
                        /\ hist' = Completed(Called(f, "rowWrite", ok), "error", 0)
                        /\ UNCHANGED <<store, pc, frame>>
                   ELSE /\ transactions' = transactions @@ (nextId :>
                               [type |-> formData.type, amount |-> formData.amount,
                                bank_id |-> formData.bank_id])
                        /\ nextId' = nextId + 1
                        /\ pc' = [pc EXCEPT ![s] = "tx_create_select"]
                        /\ frame' = [frame EXCEPT ![s] = f]
                        /\ UNCHANGED <<banks, transfers, toast, hist>>
    /\ UNCHANGED <<txList, trList>>
    /\ UNCHANGED creditsPage
    /\ HandlerOf(SignedIn)
    /\ UNCHANGED <<sortedPersonTotals, banksPage>>

\* handleSubmit's create branch: the select of the bank's balance.
Transactions_handleSubmit_createSelect(s, ok) ==
    /\ StoreCall(ok)
    /\ pc[s] = "tx_create_select"
    /\ frame' = [frame EXCEPT ![s] = [Called(@, "select", ok) EXCEPT !.currentBalance =
                    NumberOrZero(SelectBalance(frame[s].formData.bank_id, ok))]]
    /\ pc' = [pc EXCEPT ![s] = "tx_create_update"]
    /\ UNCHANGED <<store, txList, trList, toast, ops, hist>>
    /\ UNCHANGED creditsPage
    /\ HandlerOf(SignedIn)
    /\ UNCHANGED <<sortedPersonTotals, banksPage>>

\* handleSubmit's create branch: the update of the bank's balance, the toast and
\* the reset of the form.
Transactions_handleSubmit_createUpdate(s, ok) ==
    /\ StoreCall(ok)
    /\ pc[s] = "tx_create_update"
    /\ LET f == frame[s]
           newBalance == CreateNewBalance(f.currentBalance, f.formData.type,
                                          f.formData.amount)
       IN  /\ banks' = UpdateBalance(f.formData.bank_id, newBalance, ok)
           /\ hist' = Completed(Called(f, "update", ok), "success", f.id)
    /\ toast' = [toast EXCEPT ![s] = "Transaction added successfully"]
    /\ pc' = [pc EXCEPT ![s] = "tx_fetch"]
    /\ frame' = [frame EXCEPT ![s] = NoFrame]
    /\ UNCHANGED <<transactions, transfers, nextId, txList, trList, ops>>
    /\ UNCHANGED creditsPage
    /\ HandlerOf(SignedIn)
    /\ UNCHANGED <<sortedPersonTotals, banksPage>>

\* handleEdit followed by handleSubmit with editingTransaction set, up to the
\* update's answer.  editingTransaction is the row as the session's list shows
\* it; formData is what the user left in the form.
Transactions_handleSubmit_update(s, id, formData, ok) ==
    /\ StoreCall(ok)
    /\ pc[s] = "idle"
    /\ ops < MaxOps
    /\ id \in DOMAIN txList[s]
    /\ LET editingTransaction == [id |-> id] @@ txList[s][id]
           f == Started("updateTransaction")
                   @@ [formData |-> formData, id |-> id, currentBalance |-> 0,
                       editingTransaction |-> editingTransaction]
       IN  IF CategoryMissing(formData)
           THEN /\ ok
                /\ toast' = [toast EXCEPT ![s] = "Category required"]
                /\ UNCHANGED <<store, pc, frame, ops, hist>>
           ELSE /\ ops' = ops + 1
                /\ IF RowWriteFails(IF id \in DOMAIN transactions
                                    THEN {formData.bank_id} ELSE {}, ok)
                   THEN /\ toast' = [toast EXCEPT ![s] = "Error"]
                        /\ hist' = Completed(Called(f, "rowWrite", ok), "error", id)
                        /\ UNCHANGED <<store, pc, frame>>
                   ELSE /\ transactions' =
                              IF id \in DOMAIN transactions
                              THEN [transactions EXCEPT ![id] =
                                      [type |-> formData.type,
                                       amount |-> formData.amount,
                                       bank_id |-> formData.bank_id]]
                              ELSE transactions
                        /\ pc' = [pc EXCEPT ![s] = "tx_update_select"]
                        /\ frame' = [frame EXCEPT ![s] = f]
                        /\ UNCHANGED <<banks, transfers, nextId, toast, hist>>
    /\ UNCHANGED <<txList, trList>>
    /\ UNCHANGED creditsPage
    /\ HandlerOf(SignedIn)
    /\ UNCHANGED <<sortedPersonTotals, banksPage>>

\* handleSubmit's update branch: the select of the balance of formData.bank_id.
Transactions_handleSubmit_updateSelect(s, ok) ==
    /\ StoreCall(ok)
    /\ pc[s] = "tx_update_select"
    /\ frame' = [frame EXCEPT ![s] = [Called(@, "select", ok) EXCEPT !.currentBalance =
                    NumberOrZero(SelectBalance(frame[s].formData.bank_id, ok))]]
    /\ pc' = [pc EXCEPT ![s] = "tx_update_update"]
    /\ UNCHANGED <<store, txList, trList, toast, ops, hist>>
    /\ UNCHANGED creditsPage
    /\ HandlerOf(SignedIn)
    /\ UNCHANGED <<sortedPersonTotals, banksPage>>

\* The update branch taking the old effect back from the bank the row was on.
Transactions_handleSubmit_updateUpdate_ReversesOnOldBank(s, ok) ==
    /\ StoreCall(ok)
    /\ pc[s] = "tx_update_update"
    /\ LET f == frame[s]
           old == f.editingTransaction
           reversed == [banks EXCEPT ![old.bank_id] =
                           DeleteNewBalance(@, old.type, old.amount)]
       IN  /\ banks' = [reversed EXCEPT ![f.formData.bank_id] =
                           CreateNewBalance(@, f.formData.type, f.formData.amount)]
           /\ hist' = Completed(Called(f, "update", ok), "success", f.id)
    /\ toast' = [toast EXCEPT ![s] = "Transaction updated successfully"]
    /\ pc' = [pc EXCEPT ![s] = "tx_fetch"]
    /\ frame' = [frame EXCEPT ![s] = NoFrame]
    /\ UNCHANGED <<transactions, transfers, nextId, txList, trList, ops>>
    /\ UNCHANGED creditsPage
    /\ HandlerOf(SignedIn)
    /\ UNCHANGED <<sortedPersonTotals, banksPage>>

\* handleSubmit's update branch: the update of the balance of formData.bank_id,
\* the toast and the reset of the form.
Transactions_handleSubmit_updateUpdate(s, ok) ==
    /\ StoreCall(ok)
    /\ pc[s] = "tx_update_update"
    /\ LET f == frame[s]
           currentBalance ==
               UpdateNewBalance(f.currentBalance, f.editingTransaction.type,
                                f.editingTransaction.amount, f.formData.type,
                                f.formData.amount)
       IN  /\ banks' = UpdateBalance(f.formData.bank_id, currentBalance, ok)
           /\ hist' = Completed(Called(f, "update", ok), "success", f.id)
    /\ toast' = [toast EXCEPT ![s] = "Transaction updated successfully"]
    /\ pc' = [pc EXCEPT ![s] = "tx_fetch"]
    /\ frame' = [frame EXCEPT ![s] = NoFrame]
    /\ UNCHANGED <<transactions, transfers, nextId, txList, trList, ops>>
    /\ UNCHANGED creditsPage
    /\ HandlerOf(SignedIn)
    /\ UNCHANGED <<sortedPersonTotals, banksPage>>

\* handleDelete(transaction), up to the delete's answer.  `transaction` is the
\* row as the session's list shows it.
Transactions_handleDelete_delete(s, id, ok) ==
    /\ StoreCall(ok)
    /\ pc[s] = "idle"
    /\ ops < MaxOps
    /\ id \in DOMAIN txList[s]
    /\ ops' = ops + 1
    /\ LET f == Started("deleteTransaction")
                   @@ [transaction |-> [id |-> id] @@ txList[s][id], id |-> id,
                       currentBalance |-> 0]
       IN  IF ~ok
           THEN /\ toast' = [toast EXCEPT ![s] = "Error deleting transaction"]
                /\ hist' = Completed(Called(f, "rowWrite", ok), "error", id)
                /\ UNCHANGED <<store, pc, frame>>
           ELSE /\ transactions' = Without(transactions, id)
                /\ pc' = [pc EXCEPT ![s] = "tx_delete_select"]
                /\ frame' = [frame EXCEPT ![s] = f]
                /\ UNCHANGED <<banks, transfers, nextId, toast, hist>>
    /\ UNCHANGED <<txList, trList>>
    /\ UNCHANGED creditsPage
    /\ HandlerOf(SignedIn)
    /\ UNCHANGED <<sortedPersonTotals, banksPage>>

\* handleDelete: the select of the balance of transaction.bank_id.
Transactions_handleDelete_select(s, ok) ==
    /\ StoreCall(ok)
    /\ pc[s] = "tx_delete_select"
    /\ frame' = [frame EXCEPT ![s] = [Called(@, "select", ok) EXCEPT !.currentBalance =
                    NumberOrZero(SelectBalance(frame[s].transaction.bank_id, ok))]]
    /\ pc' = [pc EXCEPT ![s] = "tx_delete_update"]
    /\ UNCHANGED <<store, txList, trList, toast, ops, hist>>
    /\ UNCHANGED creditsPage
    /\ HandlerOf(SignedIn)
    /\ UNCHANGED <<sortedPersonTotals, banksPage>>

\* handleDelete: the update of the balance of transaction.bank_id and the toast.
Transactions_handleDelete_update(s, ok) ==
    /\ StoreCall(ok)
    /\ pc[s] = "tx_delete_update"
    /\ LET f == frame[s]
           newBalance == DeleteNewBalance(f.currentBalance, f.transaction.type,
                                          f.transaction.amount)
       IN  /\ banks' = UpdateBalance(f.transaction.bank_id, newBalance, ok)
           /\ hist' = Completed(Called(f, "update", ok), "success", f.id)
    /\ toast' = [toast EXCEPT ![s] = "Transaction deleted successfully"]
    /\ pc' = [pc EXCEPT ![s] = "tx_fetch"]
    /\ frame' = [frame EXCEPT ![s] = NoFrame]
    /\ UNCHANGED <<transactions, transfers, nextId, txList, trList, ops>>
    /\ UNCHANGED creditsPage
    /\ HandlerOf(SignedIn)
    /\ UNCHANGED <<sortedPersonTotals, banksPage>>

----------------------------------------------------------------------------
(* Page Transfers.                                                         *)

\* fetchData: on mount, and after every handler that succeeded.
Transfers_fetchData(s, ok) ==
    /\ StoreCall(ok)
    /\ pc[s] \in {"idle", "tr_fetch"}
    /\ pc' = [pc EXCEPT ![s] = "idle"]
    /\ IF ok
       THEN /\ trList' = [trList EXCEPT ![s] = transfers]
            /\ UNCHANGED toast
       ELSE /\ toast' = [toast EXCEPT ![s] = "Error loading data"]
            /\ UNCHANGED trList
    /\ UNCHANGED <<store, frame, txList, ops, hist>>
    /\ UNCHANGED creditsPage
    /\ HandlerOf(SignedIn)
    /\ UNCHANGED <<sortedPersonTotals, banksPage>>

\* handleSubmit, up to the insert's answer.
Transfers_handleSubmit_insert(s, formData, ok) ==
    /\ StoreCall(ok)
    /\ pc[s] = "idle"
    /\ ops < MaxOps
    /\ LET f == Started("createTransfer") @@ [formData |-> formData, id |-> nextId]
       IN  IF SameAccount(formData)
           THEN /\ ok
                /\ toast' = [toast EXCEPT ![s] = "Cannot transfer to the same account"]
                /\ UNCHANGED <<store, pc, frame, ops, hist>>
           ELSE /\ ops' = ops + 1
                /\ IF RowWriteFails({formData.from_bank_id, formData.to_bank_id}, ok)
                   THEN /\ toast' = [toast EXCEPT ![s] = "Error"]
                        /\ hist' = Completed(Called(f, "rowWrite", ok), "error", 0)
                        /\ UNCHANGED <<store, pc, frame>>
                   ELSE /\ transfers' = transfers @@ (nextId :>
                               [from_bank_id |-> formData.from_bank_id,
                                to_bank_id |-> formData.to_bank_id,
                                amount |-> formData.amount])
                        /\ nextId' = nextId + 1
                        /\ pc' = [pc EXCEPT ![s] = "tr_create_from"]
                        /\ frame' = [frame EXCEPT ![s] = f]
                        /\ UNCHANGED <<banks, transactions, toast, hist>>
    /\ UNCHANGED <<txList, trList>>
    /\ UNCHANGED creditsPage
    /\ HandlerOf(SignedIn)
    /\ UNCHANGED <<sortedPersonTotals, banksPage>>

\* handleSubmit: "Decrease from bank", the select and the update.  The update
\* is sent as soon as the select answers and nothing of the session runs in
\* between, but the store is free to change: two steps.
Transfers_handleSubmit_selectFrom(s, ok) ==
    /\ StoreCall(ok)
    /\ pc[s] = "tr_create_from"
    /\ frame' = [frame EXCEPT ![s] = [fromBankData |->
                    SelectBalance(frame[s].formData.from_bank_id, ok)]
                    @@ Called(@, "selectFrom", ok)]
    /\ pc' = [pc EXCEPT ![s] = "tr_create_from_update"]
    /\ UNCHANGED <<store, txList, trList, toast, ops, hist>>
    /\ UNCHANGED creditsPage
    /\ HandlerOf(SignedIn)
    /\ UNCHANGED <<sortedPersonTotals, banksPage>>

Transfers_handleSubmit_updateFrom(s, ok) ==
    /\ StoreCall(ok)
    /\ pc[s] = "tr_create_from_update"
    /\ LET f == frame[s]
       IN  banks' = UpdateBalance(f.formData.from_bank_id,
                        DecreaseFromBank(f.fromBankData, f.formData.amount), ok)
    /\ frame' = [frame EXCEPT ![s] = Called(@, "updateFrom", ok)]
    /\ pc' = [pc EXCEPT ![s] = "tr_create_to"]
    /\ UNCHANGED <<transactions, transfers, nextId, txList, trList, toast, ops, hist>>
    /\ UNCHANGED creditsPage
    /\ HandlerOf(SignedIn)
    /\ UNCHANGED <<sortedPersonTotals, banksPage>>

\* handleSubmit: "Increase to bank", the select and the update, then the toast
\* and the reset of the form.
Transfers_handleSubmit_selectTo(s, ok) ==
    /\ StoreCall(ok)
    /\ pc[s] = "tr_create_to"
    /\ frame' = [frame EXCEPT ![s] = [toBankData |->
                    SelectBalance(frame[s].formData.to_bank_id, ok)]
                    @@ Called(@, "selectTo", ok)]
    /\ pc' = [pc EXCEPT ![s] = "tr_create_to_update"]
    /\ UNCHANGED <<store, txList, trList, toast, ops, hist>>
    /\ UNCHANGED creditsPage
    /\ HandlerOf(SignedIn)
    /\ UNCHANGED <<sortedPersonTotals, banksPage>>

Transfers_handleSubmit_updateTo(s, ok) ==
    /\ StoreCall(ok)
    /\ pc[s] = "tr_create_to_update"
    /\ LET f == frame[s]
       IN  /\ banks' = UpdateBalance(f.formData.to_bank_id,
                           IncreaseToBank(f.toBankData, f.formData.amount), ok)
           /\ hist' = Completed(Called(f, "update", ok), "success", f.id)
    /\ toast' = [toast EXCEPT ![s] = "Transfer completed successfully"]
    /\ pc' = [pc EXCEPT ![s] = "tr_fetch"]
    /\ frame' = [frame EXCEPT ![s] = NoFrame]
    /\ UNCHANGED <<transactions, transfers, nextId, txList, trList, ops>>
    /\ UNCHANGED creditsPage
    /\ HandlerOf(SignedIn)
    /\ UNCHANGED <<sortedPersonTotals, banksPage>>

\* handleDelete(transfer), up to the delete's answer.  `transfer` is the row as
\* the session's list shows it.
Transfers_handleDelete_delete(s, id, ok) ==
    /\ StoreCall(ok)
    /\ pc[s] = "idle"
    /\ ops < MaxOps
    /\ id \in DOMAIN trList[s]
    /\ ops' = ops + 1
    /\ LET f == Started("deleteTransfer")
                   @@ [transfer |-> [id |-> id] @@ trList[s][id], id |-> id]
       IN  IF ~ok
           THEN /\ toast' = [toast EXCEPT ![s] = "Error deleting transfer"]
                /\ hist' = Completed(Called(f, "rowWrite", ok), "error", id)
                /\ UNCHANGED <<store, pc, frame>>
           ELSE /\ transfers' = Without(transfers, id)
                /\ pc' = [pc EXCEPT ![s] = "tr_delete_from"]
                /\ frame' = [frame EXCEPT ![s] = f]
                /\ UNCHANGED <<banks, transactions, nextId, toast, hist>>
    /\ UNCHANGED <<txList, trList>>
    /\ UNCHANGED creditsPage
    /\ HandlerOf(SignedIn)
    /\ UNCHANGED <<sortedPersonTotals, banksPage>>

\* handleDelete: "Restore from bank", the select and the update.
Transfers_handleDelete_selectFrom(s, ok) ==
    /\ StoreCall(ok)
    /\ pc[s] = "tr_delete_from"
    /\ frame' = [frame EXCEPT ![s] = [fromBankData |->
                    SelectBalance(frame[s].transfer.from_bank_id, ok)]
                    @@ Called(@, "selectFrom", ok)]
    /\ pc' = [pc EXCEPT ![s] = "tr_delete_from_update"]
    /\ UNCHANGED <<store, txList, trList, toast, ops, hist>>
    /\ UNCHANGED creditsPage
    /\ HandlerOf(SignedIn)
    /\ UNCHANGED <<sortedPersonTotals, banksPage>>

Transfers_handleDelete_updateFrom(s, ok) ==
    /\ StoreCall(ok)
    /\ pc[s] = "tr_delete_from_update"
    /\ LET f == frame[s]
       IN  banks' = UpdateBalance(f.transfer.from_bank_id,
                        RestoreFromBank(f.fromBankData, f.transfer.amount), ok)
    /\ frame' = [frame EXCEPT ![s] = Called(@, "updateFrom", ok)]
    /\ pc' = [pc EXCEPT ![s] = "tr_delete_to"]
    /\ UNCHANGED <<transactions, transfers, nextId, txList, trList, toast, ops, hist>>
    /\ UNCHANGED creditsPage
    /\ HandlerOf(SignedIn)
    /\ UNCHANGED <<sortedPersonTotals, banksPage>>

\* handleDelete: "Restore to bank", the select and the update, then the toast.
Transfers_handleDelete_selectTo(s, ok) ==
    /\ StoreCall(ok)
    /\ pc[s] = "tr_delete_to"
    /\ frame' = [frame EXCEPT ![s] = [toBankData |->
                    SelectBalance(frame[s].transfer.to_bank_id, ok)]
                    @@ Called(@, "selectTo", ok)]
    /\ pc' = [pc EXCEPT ![s] = "tr_delete_to_update"]
    /\ UNCHANGED <<store, txList, trList, toast, ops, hist>>
    /\ UNCHANGED creditsPage
    /\ HandlerOf(SignedIn)
    /\ UNCHANGED <<sortedPersonTotals, banksPage>>

Transfers_handleDelete_updateTo(s, ok) ==
    /\ StoreCall(ok)
    /\ pc[s] = "tr_delete_to_update"
    /\ LET f == frame[s]
       IN  /\ banks' = UpdateBalance(f.transfer.to_bank_id,
                           RestoreToBank(f.toBankData, f.transfer.amount), ok)
           /\ hist' = Completed(Called(f, "update", ok), "success", f.id)
    /\ toast' = [toast EXCEPT ![s] = "Transfer deleted successfully"]
    /\ pc' = [pc EXCEPT ![s] = "tr_fetch"]
    /\ frame' = [frame EXCEPT ![s] = NoFrame]
    /\ UNCHANGED <<transactions, transfers, nextId, txList, trList, ops>>
    /\ UNCHANGED creditsPage
    /\ HandlerOf(SignedIn)
    /\ UNCHANGED <<sortedPersonTotals, banksPage>>

----------------------------------------------------------------------------
(* Page Banks.                                                             *)

\* ON DELETE CASCADE of transactions.bank_id: the rows that stay.
CascadeTransactions(table, bank) ==
    [i \in {j \in DOMAIN table : table[j].bank_id # bank} |-> table[i]]

\* The cascade following from_bank_id alone.
CascadeTransfers_FromOnly(table, bank) ==
    [i \in {j \in DOMAIN table : table[j].from_bank_id # bank} |-> table[i]]

\* ON DELETE SET NULL in the place of the cascade: the rows stay, changed.
CascadeTransfers_SetNull(table, bank) ==
    [i \in DOMAIN table |->
        [table[i] EXCEPT !.from_bank_id = IF @ = bank THEN "null" ELSE @,
                         !.to_bank_id = IF @ = bank THEN "null" ELSE @]]

\* ON DELETE CASCADE of transfers.from_bank_id and transfers.to_bank_id: the
\* rows that stay.
CascadeTransfers(table, bank) ==
    [i \in {j \in DOMAIN table : table[j].from_bank_id # bank
                                 /\ table[j].to_bank_id # bank} |-> table[i]]

\* handleDelete(id): one delete on banks, which the store cascades.  The id is
\* one the page's list shows; a bank that is gone by now makes it a delete of no
\* row, which is no error.
Banks_handleDelete(s, id, ok) ==
    /\ StoreCall(ok)
    /\ pc[s] = "idle"
    /\ ops < MaxOps
    /\ ops' = ops + 1
    /\ LET f == Started("deleteBank") @@ [bank |-> id]
       IN  IF ~ok
           THEN /\ toast' = [toast EXCEPT ![s] = "Error deleting bank"]
                /\ hist' = Completed(Called(f, "rowWrite", ok), "error", 0)
                /\ UNCHANGED store
           ELSE /\ banks' = Without(banks, id)
                /\ transactions' = CascadeTransactions(transactions, id)
                /\ transfers' = CascadeTransfers(transfers, id)
                /\ toast' = [toast EXCEPT ![s] = "Bank account deleted successfully"]
                /\ hist' = Completed(f, "success", 0)
                /\ UNCHANGED nextId
    /\ UNCHANGED <<pc, frame, txList, trList>>
    /\ UNCHANGED creditsPage
    /\ HandlerOf(SignedIn)
    /\ UNCHANGED <<sortedPersonTotals, banksPage>>

\* The bank the page can add to the three it starts with, and the balances
\* typed into the form.
NewBankIds == {"Wallet"}

TypedBalances == {<<"7", "5", "0">>}

DigitChars == <<"0", "1", "2", "3", "4", "5", "6", "7", "8", "9">>

\* The decimal digits of a number that is not negative.
RECURSIVE Digits(_)
Digits(n) ==
    IF n < 10 THEN <<DigitChars[n + 1]>>
    ELSE Append(Digits(n \div 10), DigitChars[(n % 10) + 1])

\* bank.balance.toString(), of a whole number.
toString(n) == IF n < 0 THEN <<"-">> \o Digits(0 - n) ELSE Digits(n)

IsDigit(c) == \E d \in 1 .. 10 : DigitChars[d] = c

\* The number the leading digits of a text stand for, read after acc.
RECURSIVE ParseDigits(_, _)
ParseDigits(text, acc) ==
    IF text = << >> \/ ~IsDigit(Head(text)) THEN acc
    ELSE ParseDigits(Tail(text),
                     acc * 10 + (CHOOSE d \in 0 .. 9 : DigitChars[d + 1] = Head(text)))

\* parseFloat(formData.balance) of a text without fraction or exponent: the
\* number of its sign and leading digits, or no number (NaN) without a digit.
ParseFloat(text) ==
    LET negative == text # << >> /\ Head(text) = "-"
        digits == IF negative THEN Tail(text) ELSE text
    IN  IF digits = << >> \/ ~IsDigit(Head(digits)) THEN {}
        ELSE {IF negative THEN 0 - ParseDigits(digits, 0) ELSE ParseDigits(digits, 0)}

\* What the Banks page leaves alone.
BanksPageOnly ==
    UNCHANGED <<store, pc, frame, txList, trList, toast, ops, failures, hist,
                credits, creditList, owner, response, sortedPersonTotals>>

\* fetchBanks: the list of the page is the banks with their balances.
Banks_fetchBanks(s, ok) ==
    /\ StoreCall(ok)
    /\ pc[s] \in {"idle", "bk_fetch"}
    /\ pc' = [pc EXCEPT ![s] = "idle"]
    /\ IF ok
       THEN /\ banksPage' = [banksPage EXCEPT ![s].banks = banks]
            /\ UNCHANGED toast
       ELSE /\ toast' = [toast EXCEPT ![s] = "Error loading banks"]
            /\ UNCHANGED banksPage
    /\ UNCHANGED <<store, frame, txList, trList, ops, hist>>
    /\ UNCHANGED creditsPage
    /\ HandlerOf(SignedIn)
    /\ UNCHANGED sortedPersonTotals

\* The button Add Bank: handleDialogClose(), and the dialog opens.
Banks_addBank(s) ==
    /\ pc[s] = "idle"
    /\ ~banksPage[s].open
    /\ banksPage' = [banksPage EXCEPT ![s] = [NoBanksPage EXCEPT !.banks = banksPage[s].banks,
                                                                 !.open = TRUE]]
    /\ BanksPageOnly

\* handleEdit(bank), bank a row of the page's list.
Banks_handleEdit(s, id) ==
    /\ pc[s] = "idle"
    /\ ~banksPage[s].open
    /\ id \in DOMAIN banksPage[s].banks
    /\ LET bank == [id |-> id, balance |-> banksPage[s].banks[id]]
       IN  banksPage' = [banksPage EXCEPT ![s].editingBank = {bank},
                                          ![s].formData = [balance |-> toString(bank.balance)],
                                          ![s].open = TRUE]
    /\ BanksPageOnly

\* onChange of the balance field.
Banks_onChange(s, text) ==
    /\ pc[s] = "idle"
    /\ banksPage[s].open
    /\ banksPage' = [banksPage EXCEPT ![s].formData = [balance |-> text]]
    /\ BanksPageOnly

\* onOpenChange(false): the dialog is closed, editingBank and formData stay.
Banks_onOpenChange(s) ==
    /\ pc[s] = "idle"
    /\ banksPage[s].open
    /\ banksPage' = [banksPage EXCEPT ![s].open = FALSE]
    /\ BanksPageOnly

\* handleSubmit of the Banks page: the update of the edited bank, or the insert
\* of a new one, with the balance parsed from the form.  The update of a bank
\* that is gone matches no row, which is no error.
Banks_handleSubmit(s, id, ok) ==
    /\ StoreCall(ok)
    /\ pc[s] = "idle"
    /\ ops < MaxOps
    /\ banksPage[s].open
    /\ ParseFloat(banksPage[s].formData.balance) # {}
    /\ LET editingBank == banksPage[s].editingBank
           balance == CHOOSE n \in ParseFloat(banksPage[s].formData.balance) : TRUE
           f == Started(IF editingBank # {} THEN "updateBank" ELSE "createBank")
                   @@ [bank |-> id, editingBank |-> editingBank,
                       formData |-> banksPage[s].formData]
       IN  /\ IF editingBank # {}
              THEN id = (CHOOSE b \in editingBank : TRUE).id
              ELSE id \in NewBankIds \ DOMAIN banks
           /\ ops' = ops + 1
           /\ IF ~ok
              THEN /\ toast' = [toast EXCEPT ![s] = "Error"]
                   /\ hist' = Completed(Called(f, "rowWrite", ok), "error", 0)
                   /\ UNCHANGED <<banks, pc, banksPage>>
              ELSE /\ banks' = IF editingBank # {}
                               THEN UpdateBalance(id, balance, ok)
                               ELSE banks @@ (id :> balance)
                   /\ toast' = [toast EXCEPT ![s] =
                                   IF editingBank # {}
                                   THEN "Bank account updated successfully"
                                   ELSE "Bank account created successfully"]
                   /\ hist' = Completed(f, "success", 0)
                   /\ banksPage' = [banksPage EXCEPT ![s] =
                                       [NoBanksPage EXCEPT !.banks = banksPage[s].banks]]
                   /\ pc' = [pc EXCEPT ![s] = "bk_fetch"]
    /\ UNCHANGED <<transactions, transfers, nextId, frame, txList, trList>>
    /\ UNCHANGED creditsPage
    /\ HandlerOf(SignedIn)
    /\ UNCHANGED sortedPersonTotals

----------------------------------------------------------------------------
(* Page Credits.                                                           *)

People == {"Asha", "Ravi"}

CreditTypes == {"owe_me", "i_owe"}

\* formData of the Credits page as submitted.
CreditForms == [person_name : People, amount : Amounts, type : CreditTypes]

\* The rows of the table as a list, in the order of their ids.
RECURSIVE ListOf(_)
ListOf(table) ==
    IF DOMAIN table = {} THEN << >>
    ELSE LET first == CHOOSE i \in DOMAIN table : \A j \in DOMAIN table : i <= j
         IN  <<table[first]>> \o ListOf(Without(table, first))

\* personTotals: credits.reduce(...) over the first n credits of the list.
RECURSIVE PersonTotals(_, _)
PersonTotals(list, n) ==
    IF n = 0 THEN << >>
    ELSE LET acc == PersonTotals(list, n - 1)
             credit == list[n]
             found == {i \in 1 .. Len(acc) : acc[i].name = credit.person_name}
         IN  IF found # {}
             THEN LET existingPerson == CHOOSE i \in found : \A j \in found : i <= j
                  IN  IF credit.type = "owe_me"
                      THEN [acc EXCEPT ![existingPerson].owedToMe = @ + credit.amount]
                      ELSE [acc EXCEPT ![existingPerson].iOwe = @ + credit.amount]
             ELSE Append(acc,
                      [name |-> credit.person_name,
                       owedToMe |-> IF credit.type = "owe_me" THEN credit.amount ELSE 0,
                       iOwe |-> IF credit.type = "i_owe" THEN credit.amount ELSE 0])

\* The net with what I owe added to what is owed to me.
Net_Adds(p) == p.owedToMe + p.iOwe

\* net: p.owedToMe - p.iOwe
Net(p) == p.owedToMe - p.iOwe

\* Math.abs
Abs(x) == IF x < 0 THEN 0 - x ELSE x

\* .sort((a, b) => Math.abs(b.net) - Math.abs(a.net)): a stable sort, the first
\* n entries of the list sorted.
RECURSIVE SortByAbsNet(_, _)
SortByAbsNet(list, n) ==
    IF n = 0 THEN << >>
    ELSE LET sorted == SortByAbsNet(list, n - 1)
             p == list[n]
             ahead == {i \in 1 .. Len(sorted) : Abs(sorted[i].net) >= Abs(p.net)}
             k == Cardinality(ahead)
         IN  SubSeq(sorted, 1, k) \o <<p>> \o SubSeq(sorted, k + 1, Len(sorted))

\* sortedPersonTotals of the list `credits` of the page.
SortedPersonTotals(list) ==
    LET personTotals == PersonTotals(list, Len(list))
        withNet == [i \in 1 .. Len(personTotals) |->
                       personTotals[i] @@ [net |-> Net(personTotals[i])]]
    IN  SortByAbsNet(withNet, Len(withNet))

\* fetchCredits: on mount, and after every handler that succeeded; setCredits
\* renders the page.
Credits_fetchCredits(s, ok) ==
    /\ StoreCall(ok)
    /\ pc[s] \in {"idle", "cr_fetch"}
    /\ pc' = [pc EXCEPT ![s] = "idle"]
    /\ IF ok
       THEN /\ creditList' = [creditList EXCEPT ![s] = credits]
            /\ sortedPersonTotals' = [sortedPersonTotals EXCEPT ![s] =
                                          SortedPersonTotals(ListOf(credits))]
            /\ UNCHANGED toast
       ELSE /\ toast' = [toast EXCEPT ![s] = "Error loading credits"]
            /\ UNCHANGED <<creditList, sortedPersonTotals>>
    /\ UNCHANGED <<store, credits, frame, txList, trList, ops, hist, banksPage>>
    /\ HandlerOf(SignedIn)

\* The insert on credits treated as a ledger entry: money lent leaves a bank.
Credits_handleSubmit_insert_AdjustsBalance(s, formData, ok) ==
    /\ StoreCall(ok)
    /\ pc[s] = "idle"
    /\ ops < MaxOps
    /\ ops' = ops + 1
    /\ ok
    /\ credits' = credits @@ (nextId :> formData)
    /\ nextId' = nextId + 1
    /\ banks' = [b \in DOMAIN banks |->
                   IF b = "Checking" /\ formData.type = "owe_me"
                   THEN banks[b] - formData.amount ELSE banks[b]]
    /\ toast' = [toast EXCEPT ![s] = "Credit record added successfully"]
    /\ pc' = [pc EXCEPT ![s] = "cr_fetch"]
    /\ hist' = Completed(Started("createCredit") @@ [formData |-> formData],
                         "success", nextId)
    /\ UNCHANGED <<transactions, transfers, frame, txList, trList, creditList>>
    /\ HandlerOf(SignedIn)
    /\ UNCHANGED <<sortedPersonTotals, banksPage>>

\* handleSubmit with editingCredit = null: one insert on credits.
Credits_handleSubmit_insert(s, formData, ok) ==
    /\ StoreCall(ok)
    /\ pc[s] = "idle"
    /\ ops < MaxOps
    /\ ops' = ops + 1
    /\ LET f == Started("createCredit") @@ [formData |-> formData]
       IN  IF ~ok
           THEN /\ toast' = [toast EXCEPT ![s] = "Error"]
                /\ hist' = Completed(Called(f, "rowWrite", ok), "error", 0)
                /\ UNCHANGED <<credits, nextId, pc>>
           ELSE /\ credits' = credits @@ (nextId :> formData)
                /\ nextId' = nextId + 1
                /\ toast' = [toast EXCEPT ![s] = "Credit record added successfully"]
                /\ pc' = [pc EXCEPT ![s] = "cr_fetch"]
                /\ hist' = Completed(f, "success", nextId)
    /\ UNCHANGED <<banks, transactions, transfers, frame, txList, trList, creditList>>
    /\ HandlerOf(SignedIn)
    /\ UNCHANGED <<sortedPersonTotals, banksPage>>

\* handleEdit followed by handleSubmit with editingCredit set: one update on
\* credits, of no row when the credit is gone by now.
Credits_handleSubmit_update(s, id, formData, ok) ==
    /\ StoreCall(ok)
    /\ pc[s] = "idle"
    /\ ops < MaxOps
    /\ id \in DOMAIN creditList[s]
    /\ ops' = ops + 1
    /\ LET f == Started("updateCredit") @@ [formData |-> formData]
       IN  IF ~ok
           THEN /\ toast' = [toast EXCEPT ![s] = "Error"]
                /\ hist' = Completed(Called(f, "rowWrite", ok), "error", id)
                /\ UNCHANGED <<credits, pc>>
           ELSE /\ credits' = IF id \in DOMAIN credits
                              THEN [credits EXCEPT ![id] = formData] ELSE credits
                /\ toast' = [toast EXCEPT ![s] = "Credit record updated successfully"]
                /\ pc' = [pc EXCEPT ![s] = "cr_fetch"]
                /\ hist' = Completed(f, "success", id)
    /\ UNCHANGED <<store, frame, txList, trList, creditList>>
    /\ HandlerOf(SignedIn)
    /\ UNCHANGED <<sortedPersonTotals, banksPage>>

\* handleDelete(id): one delete on credits.
Credits_handleDelete(s, id, ok) ==
    /\ StoreCall(ok)
    /\ pc[s] = "idle"
    /\ ops < MaxOps
    /\ id \in DOMAIN creditList[s]
    /\ ops' = ops + 1
    /\ LET f == Started("deleteCredit")
       IN  IF ~ok
           THEN /\ toast' = [toast EXCEPT ![s] = "Error deleting credit"]
                /\ hist' = Completed(Called(f, "rowWrite", ok), "error", id)
                /\ UNCHANGED <<credits, pc>>
           ELSE /\ credits' = Without(credits, id)
                /\ toast' = [toast EXCEPT ![s] = "Credit record deleted successfully"]
                /\ pc' = [pc EXCEPT ![s] = "cr_fetch"]
                /\ hist' = Completed(f, "success", id)
    /\ UNCHANGED <<store, frame, txList, trList, creditList>>
    /\ HandlerOf(SignedIn)
    /\ UNCHANGED <<sortedPersonTotals, banksPage>>

----------------------------------------------------------------------------
(* Page Reports.                                                           *)

\* The files chosen for import, as their text; "" is no file chosen.
ImportFiles == {"", "finance", "42", "{\"transactions\": []}", "[]", "[{\"amount\": 200}]"}

\* JSON.parse(text): the kind of value parsed, or "SyntaxError" when it throws.
JsonParse(text) ==
    IF text \in {"[]", "[{\"amount\": 200}]"} THEN "array"
    ELSE IF text = "{\"transactions\": []}" THEN "object"
    ELSE IF text = "42" THEN "number"
    ELSE "SyntaxError"

\* The check of the import taking every object for a list.
IsArray_TypeofObject(data) == data \in {"array", "object"}

\* Array.isArray(data)
IsArray(data) == data = "array"

\* handleImport: the file is read, parsed and checked, and nothing is stored.
Reports_handleImport(s, file) ==
    /\ pc[s] = "idle"
    /\ IF file = ""
       THEN UNCHANGED toast
       ELSE LET data == JsonParse(file)
            IN  IF data = "SyntaxError" \/ ~IsArray(data)
                THEN toast' = [toast EXCEPT ![s] = "Error importing data"]
                ELSE toast' = [toast EXCEPT ![s] = "Data imported successfully"]
    /\ UNCHANGED <<store, pc, frame, txList, trList, ops, failures, hist, credits,
                   creditList, owner, response, sortedPersonTotals, banksPage>>

----------------------------------------------------------------------------
(* Page Dashboard: the totals of its cards.                                *)

\* banks.reduce((sum, bank) => sum + Number(bank.balance), 0)
RECURSIVE BalanceSum(_, _)
BalanceSum(list, ids) ==
    IF ids = {} THEN 0
    ELSE LET b == CHOOSE x \in ids : TRUE
         IN  BalanceSum(list, ids \ {b}) + list[b]

totalBalance(list) == BalanceSum(list, DOMAIN list)

\* transactions.filter((t) => t.type === type).reduce((sum, t) => sum + Number(t.amount), 0)
RECURSIVE AmountSum(_, _, _)
AmountSum(list, ids, type) ==
    IF ids = {} THEN 0
    ELSE LET i == CHOOSE x \in ids : TRUE
         IN  AmountSum(list, ids \ {i}, type)
                 + (IF list[i].type = type THEN list[i].amount ELSE 0)

totalIncome(list) == AmountSum(list, DOMAIN list, "income")

totalExpenses(list) == AmountSum(list, DOMAIN list, "expense")

----------------------------------------------------------------------------
(* The store under row level security: the requests the pages make, made   *)
(* by any user on any row.  auth.uid() is the user u of the request.       *)

\* USING (auth.uid() = user_id) and WITH CHECK (auth.uid() = user_id).
Policy(u, user_id) == u = user_id

\* The rows of a table that the policy lets u select, update or delete.
Visible(u, table) == {i \in DOMAIN table : Policy(u, owner[i])}

\* The answer to u: the rows with their user_id.
Answer(u, rows) == [user |-> u, data |-> rows]

\* What a request writes besides its table.
Requested(u, rows) ==
    /\ response' = Answer(u, rows)
    /\ UNCHANGED <<pc, frame, txList, trList, creditList, toast, failures, hist,
                   sortedPersonTotals, banksPage>>

\* .from(table).select("*") of fetchData, fetchCredits.
Store_selectRows(u, table) ==
    /\ table \in {"transactions", "transfers", "credits"}
    /\ LET t == IF table = "transactions" THEN transactions
                ELSE IF table = "transfers" THEN transfers ELSE credits
       IN  Requested(u, {[id |-> i, user_id |-> owner[i]] : i \in Visible(u, t)})
    /\ UNCHANGED <<store, credits, owner, ops>>

\* .from("banks").select("balance").eq("id", id).single()
Store_selectBalance(u, id) ==
    /\ Requested(u, IF id \in DOMAIN banks /\ Policy(u, BankOwner[id])
                    THEN {[id |-> id, user_id |-> BankOwner[id], balance |-> banks[id]]}
                    ELSE {})
    /\ UNCHANGED <<store, credits, owner, ops>>

\* .from("banks").update({ balance }).eq("id", id)
Store_updateBalance(u, id, balance) ==
    /\ ops < MaxOps
    /\ ops' = ops + 1
    /\ banks' = UpdateBalance(id, balance, Policy(u, BankOwner[id]))
    /\ Requested(u, {})
    /\ UNCHANGED <<transactions, transfers, nextId, credits, owner>>

\* .from("banks").delete().eq("id", id): the cascade is the store's own and is
\* not subject to the policies.
Store_deleteBank(u, id) ==
    /\ ops < MaxOps
    /\ ops' = ops + 1
    /\ IF id \in DOMAIN banks /\ Policy(u, BankOwner[id])
       THEN /\ banks' = Without(banks, id)
            /\ transactions' = CascadeTransactions(transactions, id)
            /\ transfers' = CascadeTransfers(transfers, id)
       ELSE UNCHANGED <<banks, transactions, transfers>>
    /\ Requested(u, {})
    /\ UNCHANGED <<nextId, credits, owner>>

\* .from("transactions").insert({ user_id, ... }): WITH CHECK on user_id; the
\* foreign key looks at banks whatever their owner.
Store_insertTransaction(u, user_id, formData) ==
    /\ ops < MaxOps
    /\ ops' = ops + 1
    /\ IF Policy(u, user_id) /\ ~RowWriteFails({formData.bank_id}, TRUE)
       THEN /\ transactions' = transactions @@ (nextId :>
                   [type |-> formData.type, amount |-> formData.amount,
                    bank_id |-> formData.bank_id])
            /\ owner' = owner @@ (nextId :> user_id)
            /\ nextId' = nextId + 1
       ELSE UNCHANGED <<transactions, owner, nextId>>
    /\ Requested(u, {})
    /\ UNCHANGED <<banks, transfers, credits>>

\* .from("transactions").update({ ... }).eq("id", id)
Store_updateTransaction(u, id, formData) ==
    /\ ops < MaxOps
    /\ ops' = ops + 1
    /\ IF id \in Visible(u, transactions) /\ ~RowWriteFails({formData.bank_id}, TRUE)
       THEN transactions' = [transactions EXCEPT ![id] =
                [type |-> formData.type, amount |-> formData.amount,
                 bank_id |-> formData.bank_id]]
       ELSE UNCHANGED transactions
    /\ Requested(u, {})
    /\ UNCHANGED <<banks, transfers, nextId, credits, owner>>

\* .from("transactions").delete().eq("id", id)
Store_deleteTransaction(u, id) ==
    /\ ops < MaxOps
    /\ ops' = ops + 1
    /\ transactions' = IF id \in Visible(u, transactions)
                       THEN Without(transactions, id) ELSE transactions
    /\ Requested(u, {})
    /\ UNCHANGED <<banks, transfers, nextId, credits, owner>>

\* .from("transfers").insert({ user_id, ... })
Store_insertTransfer(u, user_id, formData) ==
    /\ ops < MaxOps
    /\ ops' = ops + 1
    /\ IF Policy(u, user_id)
          /\ ~RowWriteFails({formData.from_bank_id, formData.to_bank_id}, TRUE)
       THEN /\ transfers' = transfers @@ (nextId :>
                   [from_bank_id |-> formData.from_bank_id,
                    to_bank_id |-> formData.to_bank_id, amount |-> formData.amount])
            /\ owner' = owner @@ (nextId :> user_id)
            /\ nextId' = nextId + 1
       ELSE UNCHANGED <<transfers, owner, nextId>>
    /\ Requested(u, {})
    /\ UNCHANGED <<banks, transactions, credits>>

\* .from("transfers").delete().eq("id", id)
Store_deleteTransfer(u, id) ==
    /\ ops < MaxOps
    /\ ops' = ops + 1
    /\ transfers' = IF id \in Visible(u, transfers)
                    THEN Without(transfers, id) ELSE transfers
    /\ Requested(u, {})
    /\ UNCHANGED <<banks, transactions, nextId, credits, owner>>

\* .from("credits").insert({ user_id, ... })
Store_insertCredit(u, user_id, formData) ==
    /\ ops < MaxOps
    /\ ops' = ops + 1
    /\ IF Policy(u, user_id)
       THEN /\ credits' = credits @@ (nextId :> formData)
            /\ owner' = owner @@ (nextId :> user_id)
            /\ nextId' = nextId + 1
       ELSE UNCHANGED <<credits, owner, nextId>>
    /\ Requested(u, {})
    /\ UNCHANGED <<banks, transactions, transfers>>

\* .from("credits").update({ ... }).eq("id", id)
Store_updateCredit(u, id, formData) ==
    /\ ops < MaxOps
    /\ ops' = ops + 1
    /\ credits' = IF id \in Visible(u, credits)
                  THEN [credits EXCEPT ![id] = formData] ELSE credits
    /\ Requested(u, {})
    /\ UNCHANGED <<store, owner>>

\* .from("credits").delete().eq("id", id)
Store_deleteCredit(u, id) ==
    /\ ops < MaxOps
    /\ ops' = ops + 1
    /\ credits' = IF id \in Visible(u, credits) THEN Without(credits, id) ELSE credits
    /\ Requested(u, {})
    /\ UNCHANGED <<store, owner>>

----------------------------------------------------------------------------
\* The row ids a handler can be invoked on.
RowIds == 1 .. MaxOps

NextOf(Ss, Oks) ==
    \E s \in Ss, ok \in Oks :
        \/ Transactions_fetchData(s, ok)
        \/ \E formData \in TxForms : Transactions_handleSubmit_insert(s, formData, ok)
        \/ Transactions_handleSubmit_createSelect(s, ok)
        \/ Transactions_handleSubmit_createUpdate(s, ok)
        \/ \E id \in RowIds, formData \in TxForms :
              Transactions_handleSubmit_update(s, id, formData, ok)
        \/ Transactions_handleSubmit_updateSelect(s, ok)
        \/ Transactions_handleSubmit_updateUpdate(s, ok)
        \/ \E id \in RowIds : Transactions_handleDelete_delete(s, id, ok)
        \/ Transactions_handleDelete_select(s, ok)
        \/ Transactions_handleDelete_update(s, ok)
        \/ Transfers_fetchData(s, ok)
        \/ \E formData \in TrForms : Transfers_handleSubmit_insert(s, formData, ok)
        \/ Transfers_handleSubmit_selectFrom(s, ok)
        \/ Transfers_handleSubmit_updateFrom(s, ok)
        \/ Transfers_handleSubmit_selectTo(s, ok)
        \/ Transfers_handleSubmit_updateTo(s, ok)
        \/ \E id \in RowIds : Transfers_handleDelete_delete(s, id, ok)
        \/ Transfers_handleDelete_selectFrom(s, ok)
        \/ Transfers_handleDelete_updateFrom(s, ok)
        \/ Transfers_handleDelete_selectTo(s, ok)
        \/ Transfers_handleDelete_updateTo(s, ok)

\* Every session, every store call may fail.
Next == NextOf(Sessions, BOOLEAN)

Spec == Init /\ [][Next]_vars

\* One session, every store call succeeds.
NextSeq == NextOf({1}, {TRUE})

SpecSeq == Init /\ [][NextSeq]_vars

\* One session, every store call may fail.
NextFail == NextOf({1}, BOOLEAN)

SpecFail == Init /\ [][NextFail]_vars

\* Two sessions working on the bank Checking at the same time, every store call
\* succeeding: the mutations that add to or take from it.
RaceTxForms ==
    {f \in TxForms : f.category = "Other" /\ f.bank_id = "Checking" /\ f.amount = 200}

RaceTrForms == {f \in TrForms : f.from_bank_id # f.to_bank_id /\ f.amount = 200}

NextRace ==
    \E s \in Sessions :
        \/ Transactions_fetchData(s, TRUE)
        \/ \E formData \in RaceTxForms : Transactions_handleSubmit_insert(s, formData, TRUE)
        \/ Transactions_handleSubmit_createSelect(s, TRUE)
        \/ Transactions_handleSubmit_createUpdate(s, TRUE)
        \/ \E id \in RowIds, formData \in RaceTxForms :
              Transactions_handleSubmit_update(s, id, formData, TRUE)
        \/ Transactions_handleSubmit_updateSelect(s, TRUE)
        \/ Transactions_handleSubmit_updateUpdate(s, TRUE)
        \/ Transfers_fetchData(s, TRUE)
        \/ \E formData \in RaceTrForms : Transfers_handleSubmit_insert(s, formData, TRUE)
        \/ Transfers_handleSubmit_selectFrom(s, TRUE)
        \/ Transfers_handleSubmit_updateFrom(s, TRUE)
        \/ Transfers_handleSubmit_selectTo(s, TRUE)
        \/ Transfers_handleSubmit_updateTo(s, TRUE)

\* The race starts after session 1 has created an income of 200 on Checking and
\* both sessions have loaded their lists.
FirstEntry == [type |-> "income", amount |-> 200, category |-> "Other", bank_id |-> "Checking"]

InitRace ==
    /\ banks = [OpeningBalance EXCEPT !["Checking"] =
                   CreateNewBalance(@, FirstEntry.type, FirstEntry.amount)]
    /\ transactions = <<[type |-> FirstEntry.type, amount |-> FirstEntry.amount,
                         bank_id |-> FirstEntry.bank_id]>>
    /\ transfers = << >>
    /\ nextId = 2
    /\ pc = [s \in Sessions |-> "idle"]
    /\ frame = [s \in Sessions |-> NoFrame]
    /\ txList = [s \in Sessions |-> transactions]
    /\ trList = [s \in Sessions |-> << >>]
    /\ toast = [s \in Sessions |-> IF s = 1 THEN "Transaction added successfully"
                                            ELSE "none"]
    /\ ops = 1
    /\ failures = 0
    /\ hist = <<[h |-> "createTransaction", outcome |-> "success", id |-> 1,
                 frame |-> [h |-> "createTransaction", preBanks |-> OpeningBalance,
                            preTransactions |-> << >>, preTransfers |-> << >>,
                            failed |-> {}, formData |-> FirstEntry, id |-> 1,
                            currentBalance |-> OpeningBalance["Checking"]]]>>
    /\ credits = << >>
    /\ creditList = [s \in Sessions |-> << >>]
    /\ owner = <<SignedIn>>
    /\ response = [user |-> SignedIn, data |-> {}]
    /\ sortedPersonTotals = [s \in Sessions |-> << >>]
    /\ banksPage = [s \in Sessions |-> NoBanksPage]

SpecRace == InitRace /\ [][NextRace]_vars

\* One session that also deletes banks, every store call succeeding.
LedgerTxForms == {f \in TxForms : f.category = "Other" /\ f.amount = 200}

LedgerTrForms == {f \in TrForms : f.from_bank_id # f.to_bank_id /\ f.amount = 200}

NextBanks ==
    \E s \in {1} :
        \/ Transactions_fetchData(s, TRUE)
        \/ \E formData \in LedgerTxForms :
              Transactions_handleSubmit_insert(s, formData, TRUE)
        \/ Transactions_handleSubmit_createSelect(s, TRUE)
        \/ Transactions_handleSubmit_createUpdate(s, TRUE)
        \/ \E id \in RowIds, formData \in LedgerTxForms :
              Transactions_handleSubmit_update(s, id, formData, TRUE)
        \/ Transactions_handleSubmit_updateSelect(s, TRUE)
        \/ Transactions_handleSubmit_updateUpdate(s, TRUE)
        \/ \E id \in RowIds : Transactions_handleDelete_delete(s, id, TRUE)
        \/ Transactions_handleDelete_select(s, TRUE)
        \/ Transactions_handleDelete_update(s, TRUE)
        \/ Transfers_fetchData(s, TRUE)
        \/ \E formData \in LedgerTrForms :
              Transfers_handleSubmit_insert(s, formData, TRUE)
        \/ Transfers_handleSubmit_selectFrom(s, TRUE)
        \/ Transfers_handleSubmit_updateFrom(s, TRUE)
        \/ Transfers_handleSubmit_selectTo(s, TRUE)
        \/ Transfers_handleSubmit_updateTo(s, TRUE)
        \/ \E id \in RowIds : Transfers_handleDelete_delete(s, id, TRUE)
        \/ Transfers_handleDelete_selectFrom(s, TRUE)
        \/ Transfers_handleDelete_updateFrom(s, TRUE)
        \/ Transfers_handleDelete_selectTo(s, TRUE)
        \/ Transfers_handleDelete_updateTo(s, TRUE)
        \/ \E id \in BankIds : Banks_handleDelete(s, id, TRUE)

SpecBanks == Init /\ [][NextBanks]_vars

\* One session using the page Credits next to the ledger, every store call
\* succeeding.
NextCredits ==
    \E s \in {1} :
        \/ Transactions_fetchData(s, TRUE)
        \/ \E formData \in LedgerTxForms :
              Transactions_handleSubmit_insert(s, formData, TRUE)
        \/ Transactions_handleSubmit_createSelect(s, TRUE)
        \/ Transactions_handleSubmit_createUpdate(s, TRUE)
        \/ Transfers_fetchData(s, TRUE)
        \/ \E formData \in LedgerTrForms :
              Transfers_handleSubmit_insert(s, formData, TRUE)
        \/ Transfers_handleSubmit_selectFrom(s, TRUE)
        \/ Transfers_handleSubmit_updateFrom(s, TRUE)
        \/ Transfers_handleSubmit_selectTo(s, TRUE)
        \/ Transfers_handleSubmit_updateTo(s, TRUE)
        \/ Credits_fetchCredits(s, TRUE)
        \/ \E formData \in CreditForms : Credits_handleSubmit_insert(s, formData, TRUE)
        \/ \E id \in RowIds, formData \in CreditForms :
              Credits_handleSubmit_update(s, id, formData, TRUE)
        \/ \E id \in RowIds : Credits_handleDelete(s, id, TRUE)

SpecCredits == Init /\ [][NextCredits]_vars

\* One session typing any number the amount inputs accept (type "number", step
\* 0.01, required, no min), every store call succeeding.
AmountsTyped == {0 - 200, 0, 200}

TypedTxForms ==
    [type : Types, amount : AmountsTyped, category : {"Other"}, bank_id : {"Checking"}]

TypedTrForms ==
    [from_bank_id : {"Checking"}, to_bank_id : {"Savings"}, amount : AmountsTyped]

NextTyped ==
    \E s \in {1} :
        \/ Transactions_fetchData(s, TRUE)
        \/ \E formData \in TypedTxForms :
              Transactions_handleSubmit_insert(s, formData, TRUE)
        \/ Transactions_handleSubmit_createSelect(s, TRUE)
        \/ Transactions_handleSubmit_createUpdate(s, TRUE)
        \/ \E id \in RowIds, formData \in TypedTxForms :
              Transactions_handleSubmit_update(s, id, formData, TRUE)
        \/ Transactions_handleSubmit_updateSelect(s, TRUE)
        \/ Transactions_handleSubmit_updateUpdate(s, TRUE)
        \/ Transfers_fetchData(s, TRUE)
        \/ \E formData \in TypedTrForms :
              Transfers_handleSubmit_insert(s, formData, TRUE)
        \/ Transfers_handleSubmit_selectFrom(s, TRUE)
        \/ Transfers_handleSubmit_updateFrom(s, TRUE)
        \/ Transfers_handleSubmit_selectTo(s, TRUE)
        \/ Transfers_handleSubmit_updateTo(s, TRUE)

SpecTyped == Init /\ [][NextTyped]_vars

\* Two users making the requests of the pages on any row of the store.
OwnersTxForms ==
    [type : {"income"}, amount : {200}, category : {"Other"}, bank_id : {"Checking"}]

OwnersTrForms ==
    [from_bank_id : {"Checking"}, to_bank_id : {"Savings"}, amount : {200}]

OwnersCreditForms == [person_name : {"Asha"}, amount : Amounts, type : {"owe_me"}]

NextOwners ==
    \E u \in Users :
        \/ \E table \in {"transactions", "transfers", "credits"} :
              Store_selectRows(u, table)
        \/ \E id \in BankIds : Store_selectBalance(u, id)
        \/ \E id \in FormBanks : Store_updateBalance(u, id, 0)
        \/ \E id \in FormBanks : Store_deleteBank(u, id)
        \/ \E user_id \in Users, formData \in OwnersTxForms :
              Store_insertTransaction(u, user_id, formData)
        \/ \E id \in RowIds, formData \in OwnersTxForms :
              Store_updateTransaction(u, id, [formData EXCEPT !.type = "expense"])
        \/ \E id \in RowIds : Store_deleteTransaction(u, id)
        \/ \E user_id \in Users, formData \in OwnersTrForms :
              Store_insertTransfer(u, user_id, formData)
        \/ \E id \in RowIds : Store_deleteTransfer(u, id)
        \/ \E user_id \in Users, formData \in OwnersCreditForms :
              Store_insertCredit(u, user_id, formData)
        \/ \E id \in RowIds, formData \in OwnersCreditForms :
              Store_updateCredit(u, id, formData)
        \/ \E id \in RowIds : Store_deleteCredit(u, id)

SpecOwners == Init /\ [][NextOwners]_vars

\* The page Credits opened on any credits stored before: the store holds up to
\* MaxCredits credits of the signed-in user, and the page has not loaded them yet.
InitSummary ==
    /\ banks = OpeningBalance
    /\ transactions = << >>
    /\ transfers = << >>
    /\ credits \in UNION {[1 .. n -> CreditForms] : n \in 0 .. MaxCredits}
    /\ nextId = Len(credits) + 1
    /\ owner = [i \in DOMAIN credits |-> SignedIn]
    /\ pc = [s \in Sessions |-> "idle"]
    /\ frame = [s \in Sessions |-> NoFrame]
    /\ txList = [s \in Sessions |-> << >>]
    /\ trList = [s \in Sessions |-> << >>]
    /\ creditList = [s \in Sessions |-> << >>]
    /\ sortedPersonTotals = [s \in Sessions |-> << >>]
    /\ banksPage = [s \in Sessions |-> NoBanksPage]
    /\ toast = [s \in Sessions |-> "none"]
    /\ ops = 0
    /\ failures = 0
    /\ hist = << >>
    /\ response = [user |-> SignedIn, data |-> {}]

NextSummary == Credits_fetchCredits(1, TRUE)

SpecSummary == InitSummary /\ [][NextSummary]_vars

\* One session importing files next to a ledger and credits, every store call
\* succeeding.
NextImport ==
    \/ NextCredits
    \/ \E file \in ImportFiles : Reports_handleImport(1, file)

SpecImport == Init /\ [][NextImport]_vars

\* One session, every store call may fail, the forms those of the race: every
\* mutation of the two ledger pages with each of its calls failing or not.
NextCalls ==
    \E ok \in BOOLEAN :
        \/ Transactions_fetchData(1, ok)
        \/ \E formData \in RaceTxForms : Transactions_handleSubmit_insert(1, formData, ok)
        \/ Transactions_handleSubmit_createSelect(1, ok)
        \/ Transactions_handleSubmit_createUpdate(1, ok)
        \/ \E id \in RowIds, formData \in RaceTxForms :
              Transactions_handleSubmit_update(1, id, formData, ok)
        \/ Transactions_handleSubmit_updateSelect(1, ok)
        \/ Transactions_handleSubmit_updateUpdate(1, ok)
        \/ \E id \in RowIds : Transactions_handleDelete_delete(1, id, ok)
        \/ Transactions_handleDelete_select(1, ok)
        \/ Transactions_handleDelete_update(1, ok)
        \/ Transfers_fetchData(1, ok)
        \/ \E formData \in RaceTrForms : Transfers_handleSubmit_insert(1, formData, ok)
        \/ Transfers_handleSubmit_selectFrom(1, ok)
        \/ Transfers_handleSubmit_updateFrom(1, ok)
        \/ Transfers_handleSubmit_selectTo(1, ok)
        \/ Transfers_handleSubmit_updateTo(1, ok)
        \/ \E id \in RowIds : Transfers_handleDelete_delete(1, id, ok)
        \/ Transfers_handleDelete_selectFrom(1, ok)
        \/ Transfers_handleDelete_updateFrom(1, ok)
        \/ Transfers_handleDelete_selectTo(1, ok)
        \/ Transfers_handleDelete_updateTo(1, ok)

SpecCalls == Init /\ [][NextCalls]_vars

\* Two sessions whose lists were loaded before the other one's mutations, every
\* store call succeeding: starting as the race does, with the deletes as well.
NextStale ==
    \E s \in Sessions :
        \/ Transactions_fetchData(s, TRUE)
        \/ \E formData \in RaceTxForms : Transactions_handleSubmit_insert(s, formData, TRUE)
        \/ Transactions_handleSubmit_createSelect(s, TRUE)
        \/ Transactions_handleSubmit_createUpdate(s, TRUE)
        \/ \E id \in RowIds, formData \in RaceTxForms :
              Transactions_handleSubmit_update(s, id, formData, TRUE)
        \/ Transactions_handleSubmit_updateSelect(s, TRUE)
        \/ Transactions_handleSubmit_updateUpdate(s, TRUE)
        \/ \E id \in RowIds : Transactions_handleDelete_delete(s, id, TRUE)
        \/ Transactions_handleDelete_select(s, TRUE)
        \/ Transactions_handleDelete_update(s, TRUE)
        \/ Transfers_fetchData(s, TRUE)
        \/ \E formData \in RaceTrForms : Transfers_handleSubmit_insert(s, formData, TRUE)
        \/ Transfers_handleSubmit_selectFrom(s, TRUE)
        \/ Transfers_handleSubmit_updateFrom(s, TRUE)
        \/ Transfers_handleSubmit_selectTo(s, TRUE)
        \/ Transfers_handleSubmit_updateTo(s, TRUE)
        \/ \E id \in RowIds : Transfers_handleDelete_delete(s, id, TRUE)
        \/ Transfers_handleDelete_selectFrom(s, TRUE)
        \/ Transfers_handleDelete_updateFrom(s, TRUE)
        \/ Transfers_handleDelete_selectTo(s, TRUE)
        \/ Transfers_handleDelete_updateTo(s, TRUE)

SpecStale == InitRace /\ [][NextStale]_vars

\* Session 1 on the Transactions and Transfers pages, session 2 on the Banks
\* page, every store call succeeding.
NextEdit ==
    \/ Transactions_fetchData(1, TRUE)
    \/ \E formData \in RaceTxForms : Transactions_handleSubmit_insert(1, formData, TRUE)
    \/ Transactions_handleSubmit_createSelect(1, TRUE)
    \/ Transactions_handleSubmit_createUpdate(1, TRUE)
    \/ Transfers_fetchData(1, TRUE)
    \/ \E formData \in RaceTrForms : Transfers_handleSubmit_insert(1, formData, TRUE)
    \/ Transfers_handleSubmit_selectFrom(1, TRUE)
    \/ Transfers_handleSubmit_updateFrom(1, TRUE)
    \/ Transfers_handleSubmit_selectTo(1, TRUE)
    \/ Transfers_handleSubmit_updateTo(1, TRUE)
    \/ Banks_fetchBanks(2, TRUE)
    \/ Banks_addBank(2)
    \/ \E id \in BankIds \cup NewBankIds : Banks_handleEdit(2, id)
    \/ \E text \in TypedBalances : Banks_onChange(2, text)
    \/ Banks_onOpenChange(2)
    \/ \E id \in BankIds \cup NewBankIds : Banks_handleSubmit(2, id, TRUE)

SpecEdit == Init /\ [][NextEdit]_vars
----------------------------------------------------------------------------
(* What the claims are stated with.                                        *)

\* signedEffect(type, amt) = amt if type == income else -amt
SignedEffect(type, amount) == IF type = "income" THEN amount ELSE 0 - amount

RECURSIVE SumOf(_, _, _)
\* The sum of what the rows `ids` of `table` contribute to bank b.
SumOf(table, ids, b) ==
    IF ids = {} THEN 0
    ELSE LET i == CHOOSE x \in ids : TRUE
             r == table[i]
             c == IF "type" \in DOMAIN r
                  THEN IF r.bank_id = b THEN SignedEffect(r.type, r.amount) ELSE 0
                  ELSE (IF r.to_bank_id = b THEN r.amount ELSE 0)
                       - (IF r.from_bank_id = b THEN r.amount ELSE 0)
         IN  c + SumOf(table, ids \ {i}, b)

\* The signed sum of the entries of the ledger (txs, trs) that reference bank b.
ContributionIn(txs, trs, b) == SumOf(txs, DOMAIN txs, b) + SumOf(trs, DOMAIN trs, b)

Contribution(b) == ContributionIn(transactions, transfers, b)

\* No handler is between its row write and its last balance update.
Quiescent == \A s \in Sessions : frame[s] = NoFrame

\* The last completed invocation, and the one before it.
Last == hist[Len(hist)]

Before == hist[Len(hist) - 1]

\* hist ends with a successful invocation of handler h.
LastIs(h) == Len(hist) >= 1 /\ Last.h = h /\ Last.outcome = "success"

\* hist ends with successful invocations of h1 and then of h2 on the row h1 made.
LastTwoAre(h1, h2) ==
    /\ Len(hist) >= 2
    /\ LastIs(h2)
    /\ Before.h = h1 /\ Before.outcome = "success"
    /\ Last.id = Before.id

\* Every bank but those of `touched` has the balance it had in `pre`.
OthersUnchanged(pre, touched) ==
    /\ DOMAIN banks = DOMAIN pre
    /\ \A b \in DOMAIN banks \ touched : banks[b] = pre[b]

----------------------------------------------------------------------------
(* C1: after any sequence of completed operations on transactions and      *)
(* transfers, run one at a time with every store call succeeding, every    *)
(* bank's balance is its initial balance plus the signed sum of the        *)
(* existing entries that reference it.                                     *)
C1_BalanceInvariant ==
    Quiescent => \A b \in DOMAIN banks : banks[b] = OpeningBalance[b] + Contribution(b)

(* C2: Create Transaction followed by Delete Transaction of that           *)
(* transaction leaves every balance as it was before the create, and no    *)
(* transaction row behind.                                                 *)
C2_CreateDeleteRoundTrip ==
    (LastTwoAre("createTransaction", "deleteTransaction") /\ Quiescent)
        => /\ banks = Before.frame.preBanks
           /\ transactions = Before.frame.preTransactions
           /\ Before.id \notin DOMAIN transactions

C2_Witness ==
    /\ LastTwoAre("createTransaction", "deleteTransaction") /\ Quiescent
    /\ Before.frame.formData.amount > 0
    /\ Last.frame.preBanks # banks

(* C3: Create Transfer from X to Y followed by Delete Transfer of that     *)
(* transfer leaves the balances of X and Y as they were before the create. *)
C3_TransferSymmetry ==
    (LastTwoAre("createTransfer", "deleteTransfer") /\ Quiescent)
        => LET X == Before.frame.formData.from_bank_id
               Y == Before.frame.formData.to_bank_id
           IN  /\ X # Y
               /\ banks[X] = Before.frame.preBanks[X]
               /\ banks[Y] = Before.frame.preBanks[Y]

\* As scenario C, with 200 transferred: 1000/200 -> 800/400 -> 1000/200.
C3_Witness ==
    /\ LastTwoAre("createTransfer", "deleteTransfer") /\ Quiescent
    /\ Before.frame.formData = [from_bank_id |-> "Checking", to_bank_id |-> "Savings",
                                amount |-> 200]
    /\ Before.frame.preBanks.Checking = 1000 /\ Before.frame.preBanks.Savings = 200
    /\ Last.frame.preBanks.Checking = 800 /\ Last.frame.preBanks.Savings = 400
    /\ banks.Checking = 1000 /\ banks.Savings = 200

(* C4: an Update Transaction that keeps the transaction on its bank gives  *)
(* the bank the balance that Delete Transaction of the old entry followed  *)
(* by Create Transaction of the new entry on that bank gives: both give    *)
(* the balance before, less the old entry's effect, plus the new entry's.  *)
C4_EditEquivalence ==
    /\ (/\ LastIs("updateTransaction")
        /\ Quiescent
        /\ Last.frame.editingTransaction.bank_id = Last.frame.formData.bank_id)
        => LET old == Last.frame.editingTransaction
               new == Last.frame.formData
               b   == new.bank_id
           IN  banks[b] = Last.frame.preBanks[b] - SignedEffect(old.type, old.amount)
                             + SignedEffect(new.type, new.amount)
    /\ (/\ Len(hist) >= 2
        /\ Quiescent
        /\ LastIs("createTransaction")
        /\ Before.h = "deleteTransaction"
        /\ Before.outcome = "success"
        /\ Before.frame.transaction.bank_id = Last.frame.formData.bank_id)
        => LET old == Before.frame.transaction
               new == Last.frame.formData
               b   == new.bank_id
           IN  banks[b] = Before.frame.preBanks[b] - SignedEffect(old.type, old.amount)
                             + SignedEffect(new.type, new.amount)

\* The same old and new entry on the same bank, changed either way, from the
\* same balance.
C4_Witness ==
    /\ Len(hist) >= 2 /\ Quiescent
    /\ \/ /\ LastIs("updateTransaction")
          /\ Last.frame.editingTransaction =
                [id |-> 1, type |-> "income", amount |-> 500, bank_id |-> "Checking"]
          /\ Last.frame.formData.type = "expense"
          /\ Last.frame.formData.amount = 200
          /\ Last.frame.formData.bank_id = "Checking"
          /\ Last.frame.preBanks.Checking = 1500
       \/ /\ LastIs("createTransaction")
          /\ Before.h = "deleteTransaction" /\ Before.outcome = "success"
          /\ Before.frame.transaction =
                [id |-> 1, type |-> "income", amount |-> 500, bank_id |-> "Checking"]
          /\ Last.frame.formData.type = "expense"
          /\ Last.frame.formData.amount = 200
          /\ Last.frame.formData.bank_id = "Checking"
          /\ Before.frame.preBanks.Checking = 1500
    /\ banks.Checking = 800

(* C5: a completed Create Transaction inserts exactly one transaction row  *)
(* and changes the bank's balance by +amount (income) or -amount           *)
(* (expense), once; every other bank's balance is unchanged.               *)
C5_CreateTransaction ==
    (LastIs("createTransaction") /\ Quiescent)
        => LET new == Last.frame.formData
               pre == Last.frame.preBanks
           IN  /\ Last.id \notin DOMAIN Last.frame.preTransactions
               /\ transactions = Last.frame.preTransactions @@ (Last.id :>
                      [type |-> new.type, amount |-> new.amount,
                       bank_id |-> new.bank_id])
               /\ banks[new.bank_id] =
                      IF new.type = "income" THEN pre[new.bank_id] + new.amount
                                             ELSE pre[new.bank_id] - new.amount
               /\ OthersUnchanged(pre, {new.bank_id})

\* Scenario A: 1000 and an income of 500 give 1500.
C5_Witness ==
    /\ LastIs("createTransaction") /\ Quiescent
    /\ Last.frame.formData.type = "income" /\ Last.frame.formData.amount = 500
    /\ Last.frame.formData.bank_id = "Checking"
    /\ Last.frame.preBanks.Checking = 1000
    /\ banks.Checking = 1500

(* C6: a completed Update Transaction sets the balance of the bank         *)
(* selected in the form to the balance it read, less the old entry's       *)
(* signed effect, plus the new entry's signed effect.                      *)
C6_UpdateDelta ==
    (LastIs("updateTransaction") /\ Quiescent)
        => LET old == Last.frame.editingTransaction
               new == Last.frame.formData
           IN  /\ Last.frame.currentBalance = Last.frame.preBanks[new.bank_id]
               /\ banks[new.bank_id] =
                      Last.frame.currentBalance - SignedEffect(old.type, old.amount)
                          + SignedEffect(new.type, new.amount)

\* Scenario B: an income of 500 updated to an expense of 200 on a bank at 1500
\* gives 800.
C6_Witness ==
    /\ LastTwoAre("createTransaction", "updateTransaction") /\ Quiescent
    /\ Last.frame.editingTransaction.type = "income"
    /\ Last.frame.editingTransaction.amount = 500
    /\ Last.frame.formData.type = "expense" /\ Last.frame.formData.amount = 200
    /\ Last.frame.formData.bank_id = "Checking"
    /\ Last.frame.currentBalance = 1500
    /\ banks.Checking = 800

(* C7: a completed Create Transfer between two different banks inserts one *)
(* transfer row, takes the amount from from_bank, adds it to to_bank and   *)
(* leaves every other bank's balance unchanged.                            *)
C7_CreateTransfer ==
    (LastIs("createTransfer") /\ Quiescent)
        => LET new == Last.frame.formData
               pre == Last.frame.preBanks
           IN  /\ new.from_bank_id # new.to_bank_id
               /\ Last.id \notin DOMAIN Last.frame.preTransfers
               /\ transfers = Last.frame.preTransfers @@ (Last.id :>
                      [from_bank_id |-> new.from_bank_id,
                       to_bank_id |-> new.to_bank_id, amount |-> new.amount])
               /\ banks[new.from_bank_id] = pre[new.from_bank_id] - new.amount
               /\ banks[new.to_bank_id] = pre[new.to_bank_id] + new.amount
               /\ OthersUnchanged(pre, {new.from_bank_id, new.to_bank_id})

C7_Witness ==
    /\ LastIs("createTransfer") /\ Quiescent
    /\ Last.frame.formData.from_bank_id = "Savings"
    /\ Last.frame.formData.to_bank_id = "Checking"
    /\ banks.Savings < 0
    /\ banks.Cash = OpeningBalance.Cash

(* C8: a Create Transfer whose from_bank is its to_bank is rejected with   *)
(* the validation error before any store write: the step that shows the    *)
(* error changes no table, and no transfer row between a bank and itself   *)
(* ever exists.                                                            *)
C8_SameAccountRejected ==
    /\ [](\A id \in DOMAIN transfers :
            transfers[id].from_bank_id # transfers[id].to_bank_id)
    /\ [][\A s \in Sessions :
            toast'[s] = "Cannot transfer to the same account" /\ toast'[s] # toast[s]
                => UNCHANGED <<store, pc, frame, ops>>]_vars

C8_Witness ==
    \E s \in Sessions :
        /\ toast[s] = "Cannot transfer to the same account"
        /\ transfers # << >>

(* C9: every mutation appears atomic to readers of the store: while a      *)
(* handler runs, the tables never show its row change without the          *)
(* matching balance change, nor one bank of a transfer adjusted without    *)
(* the other: what each balance differs by from the ledger's sum is what   *)
(* it was when the handler started.                                        *)
C9_AtomicToReaders ==
    \A s \in Sessions :
        frame[s] # NoFrame
            => \A b \in DOMAIN banks :
                  banks[b] - Contribution(b) =
                      frame[s].preBanks[b]
                          - ContributionIn(frame[s].preTransactions,
                                           frame[s].preTransfers, b)

(* C10: no partial effect: when a balance write of a Create Transaction,    *)
(* an Update or Delete Transaction, or a Create or Delete Transfer has     *)
(* failed, the ledger row change is not in the store afterwards.           *)
C10_NoPartialEffect ==
    (/\ Len(hist) >= 1
     /\ Quiescent
     /\ Last.frame.failed \cap {"update", "updateFrom"} # {})
        => /\ transactions = Last.frame.preTransactions
           /\ transfers = Last.frame.preTransfers

\* The bank whose balance the call `call` of the completed invocation e read.
BankRead(e, call) ==
    IF e.h \in {"createTransaction", "updateTransaction"} THEN e.frame.formData.bank_id
    ELSE IF e.h = "deleteTransaction" THEN e.frame.transaction.bank_id
    ELSE IF e.h = "createTransfer"
         THEN (IF call = "selectFrom" THEN e.frame.formData.from_bank_id
                                      ELSE e.frame.formData.to_bank_id)
         ELSE (IF call = "selectFrom" THEN e.frame.transfer.from_bank_id
                                      ELSE e.frame.transfer.to_bank_id)

(* C11: when the read of a bank's balance failed during a transaction or   *)
(* transfer mutation, no balance is written for that bank: it has the      *)
(* balance it had when the mutation started, not one computed from 0.      *)
C11_ReadFailureAborts ==
    (Len(hist) >= 1 /\ Quiescent)
        => \A call \in Last.frame.failed \cap {"select", "selectFrom", "selectTo"} :
              banks[BankRead(Last, call)] = Last.frame.preBanks[BankRead(Last, call)]

\* The balances the completed invocation e read for bank b.
ReadOf(e, b) ==
    IF e.h \in {"createTransaction", "updateTransaction"}
    THEN (IF e.frame.formData.bank_id = b THEN {e.frame.currentBalance} ELSE {})
    ELSE IF e.h = "createTransfer"
    THEN (IF e.frame.formData.from_bank_id = b
          THEN {r.balance : r \in e.frame.fromBankData} ELSE {})
         \cup (IF e.frame.formData.to_bank_id = b
               THEN {r.balance : r \in e.frame.toBankData} ELSE {})
    ELSE {}

\* What the ledger row change of the completed invocation e adds to bank b.
EffectOn(e, b) ==
    IF e.h = "createTransaction"
    THEN (IF e.frame.formData.bank_id = b
          THEN SignedEffect(e.frame.formData.type, e.frame.formData.amount) ELSE 0)
    ELSE IF e.h = "updateTransaction"
    THEN (IF e.frame.formData.bank_id = b
          THEN SignedEffect(e.frame.formData.type, e.frame.formData.amount)
               - SignedEffect(e.frame.editingTransaction.type,
                              e.frame.editingTransaction.amount)
          ELSE 0)
    ELSE IF e.h = "createTransfer"
    THEN (IF e.frame.formData.to_bank_id = b THEN e.frame.formData.amount ELSE 0)
         - (IF e.frame.formData.from_bank_id = b THEN e.frame.formData.amount ELSE 0)
    ELSE 0

\* The last two completed invocations, both successful, and no handler running.
TwoCompleted ==
    /\ Len(hist) >= 2
    /\ Quiescent
    /\ Before.outcome = "success" /\ Last.outcome = "success"

\* The balances of bank b that both of them read.
SameRead(b) == ReadOf(Before, b) \cap ReadOf(Last, b)

(* C12: when two mutations of the same bank have both read the same        *)
(* balance, the later balance write overwrites the earlier one: the final  *)
(* balance is the balance read plus the effect of one of the two only.     *)
C12_LostUpdate ==
    TwoCompleted
        => \A b \in FormBanks : \A x \in SameRead(b) :
              banks[b] \in {x + EffectOn(Before, b), x + EffectOn(Last, b)}

\* An expense of 200 on Checking racing a transfer of 200 into it: both read
\* 1200, both rows are stored, and the balance shows the transfer only.
C12_Witness ==
    /\ TwoCompleted
    /\ SameRead("Checking") = {1200}
    /\ {Before.h, Last.h} = {"createTransaction", "createTransfer"}
    /\ Before.id \in DOMAIN transactions /\ Last.id \in DOMAIN transfers
    /\ transactions[Before.id].type = "expense"
    /\ transfers[Last.id].to_bank_id = "Checking"
    /\ EffectOn(Before, "Checking") = 0 - 200 /\ EffectOn(Last, "Checking") = 200
    /\ banks.Checking = 1400
    /\ banks.Checking # 1200 + EffectOn(Before, "Checking") + EffectOn(Last, "Checking")

(* C13: every error of a store call made during a transaction or transfer  *)
(* mutation ends the mutation with an error notification, never with the   *)
(* success notification.                                                   *)
C13_ErrorsSurfaced ==
    (Len(hist) >= 1 /\ Last.frame.failed # {}) => Last.outcome = "error"

\* The last completed invocation removed rows of transactions or transfers.
RemovedRows ==
    /\ Len(hist) >= 1
    /\ Quiescent
    /\ Last.outcome = "success"
    /\ Last.h \in {"deleteTransaction", "deleteTransfer", "deleteBank"}
    /\ \/ DOMAIN transactions # DOMAIN Last.frame.preTransactions
       \/ DOMAIN transfers # DOMAIN Last.frame.preTransfers

(* C14: every removal of transaction or transfer rows, the cascade of a    *)
(* bank's deletion included, takes the removed rows' contributions out of  *)
(* the balance of every bank that still exists.                            *)
C14_RemovalReversed ==
    RemovedRows
        => \A b \in DOMAIN banks :
              banks[b] - Contribution(b) =
                  Last.frame.preBanks[b]
                      - ContributionIn(Last.frame.preTransactions,
                                       Last.frame.preTransfers, b)

(* C15: every transaction and every transfer references existing banks     *)
(* only, also after a bank was deleted.                                    *)
C15_NoDanglingReferences ==
    /\ \A id \in DOMAIN transactions : transactions[id].bank_id \in DOMAIN banks
    /\ \A id \in DOMAIN transfers :
          /\ transfers[id].from_bank_id \in DOMAIN banks
          /\ transfers[id].to_bank_id \in DOMAIN banks

\* Savings is deleted while a transaction on it and a transfer into it exist;
\* both rows go with it.
C15_Witness ==
    /\ LastIs("deleteBank")
    /\ Last.frame.bank = "Savings"
    /\ "Savings" \notin DOMAIN banks
    /\ \E id \in DOMAIN Last.frame.preTransactions :
          Last.frame.preTransactions[id].bank_id = "Savings"
    /\ \E id \in DOMAIN Last.frame.preTransfers :
          Last.frame.preTransfers[id].to_bank_id = "Savings"
    /\ transactions = << >> /\ transfers = << >>

(* C16: a transfer row keeps its from_bank, its to_bank and its amount     *)
(* from its creation until it is deleted: no step changes a row of         *)
(* transfers in place.                                                     *)
C16_TransfersImmutable ==
    [][\A id \in DOMAIN transfers \cap DOMAIN transfers' :
          transfers'[id] = transfers[id]]_vars

\* A transfer as it was created, after a later operation and the deletion of a
\* bank it does not reference.
C16_Witness ==
    /\ Len(hist) >= 2
    /\ LastIs("deleteBank")
    /\ Before.h = "createTransfer" /\ Before.outcome = "success"
    /\ Last.frame.bank = "Cash"
    /\ Before.id \in DOMAIN transfers
    /\ transfers[Before.id] =
          [from_bank_id |-> Before.frame.formData.from_bank_id,
           to_bank_id |-> Before.frame.formData.to_bank_id,
           amount |-> Before.frame.formData.amount]

(* C17: creating, updating or deleting a credit record leaves the balance  *)
(* of every bank and every transaction and transfer row unchanged: so does *)
(* every step in which a handler of the page Credits has written.          *)
C17_CreditsLeaveLedger ==
    [][(\E s \in Sessions : pc[s] = "idle" /\ pc'[s] = "cr_fetch")
          => UNCHANGED <<banks, transactions, transfers>>]_vars

\* A credit created and then updated, next to a ledger that is not empty.
C17_Witness ==
    /\ LastTwoAre("createCredit", "updateCredit")
    /\ credits[Last.id] = Last.frame.formData
    /\ Before.frame.formData # Last.frame.formData
    /\ banks # OpeningBalance
    /\ banks = Before.frame.preBanks
    /\ DOMAIN transactions \cup DOMAIN transfers # {}

\* A form of the Transactions page that asks for an expense above the balance
\* of its bank.
Overdraws(formData) ==
    /\ formData.type = "expense"
    /\ formData.category # ""
    /\ formData.bank_id \in DOMAIN banks
    /\ formData.amount > banks[formData.bank_id]

(* C18: a Create Transaction of an expense above the bank's balance is not *)
(* rejected: its row is inserted and the balance becomes the balance less  *)
(* the amount, negative as it is; and the from_bank of a created transfer  *)
(* has its balance less the amount, negative or not.                       *)
C18_NegativeBalancePermitted ==
    /\ \A formData \in TxForms :
          (pc[1] = "idle" /\ ops < MaxOps /\ Overdraws(formData))
              => ENABLED (/\ Transactions_handleSubmit_insert(1, formData, TRUE)
                          /\ nextId \in DOMAIN transactions')
    /\ (LastIs("createTransaction") /\ Quiescent
            /\ Last.frame.formData.type = "expense")
          => LET new == Last.frame.formData
             IN  /\ Last.id \in DOMAIN transactions
                 /\ banks[new.bank_id] = Last.frame.preBanks[new.bank_id] - new.amount
    /\ (LastIs("createTransfer") /\ Quiescent)
          => LET new == Last.frame.formData
             IN  /\ Last.id \in DOMAIN transfers
                 /\ banks[new.from_bank_id] =
                       Last.frame.preBanks[new.from_bank_id] - new.amount

\* As scenario E, with an expense of 500 on Savings at 200: the balance is -300.
C18_Witness ==
    /\ LastIs("createTransaction") /\ Quiescent
    /\ Last.frame.formData.type = "expense" /\ Last.frame.formData.amount = 500
    /\ Last.frame.formData.bank_id = "Savings"
    /\ Last.frame.preBanks.Savings = 200
    /\ Last.id \in DOMAIN transactions
    /\ banks.Savings = 0 - 300

(* C19: every stored transaction and every stored transfer has an amount   *)
(* greater than 0.                                                         *)
C19_AmountsPositive ==
    /\ \A id \in DOMAIN transactions : transactions[id].amount > 0
    /\ \A id \in DOMAIN transfers : transfers[id].amount > 0

\* The invocation with the locals f is a Create or Update Transaction that went
\* on to the store with an empty category.
WroteWithoutCategory(f) ==
    /\ f.h \in {"createTransaction", "updateTransaction"}
    /\ f.formData.category = ""

(* C20: a Create or Update Transaction submitted with an empty category is *)
(* rejected before any store write: the step that shows "Category          *)
(* required" changes no table and starts no handler, and no Create or      *)
(* Update Transaction with an empty category ever reaches the store.       *)
C20_EmptyCategoryRejected ==
    /\ [](/\ \A s \in Sessions : ~WroteWithoutCategory(frame[s])
          /\ \A i \in 1 .. Len(hist) : ~WroteWithoutCategory(hist[i].frame))
    /\ [][\A s \in Sessions :
            toast'[s] = "Category required" /\ toast'[s] # toast[s]
                => UNCHANGED <<store, pc, frame, ops, hist>>]_vars

\* The rejection shown to a session whose list holds a transaction it could
\* have updated.
C20_Witness ==
    /\ toast[1] = "Category required"
    /\ txList[1] # << >>
    /\ transactions = txList[1]
    /\ Quiescent

\* The rows of a table that are not u's.
RowsOfOthers(u, table, user_ids) ==
    [i \in {j \in DOMAIN table : user_ids[j] # u} |-> table[i]]

\* The banks that are not u's, with their balances.
BanksOfOthers(u, table) ==
    [b \in {c \in DOMAIN table : BankOwner[c] # u} |-> table[b]]

(* C21: no request of a user reads or changes a bank, transaction,         *)
(* transfer or credit row of another user: every request leaves the rows   *)
(* and balances of the other users as they were and answers with rows of   *)
(* the requesting user only.                                               *)
C21_OwnerIsolation ==
    [][LET u == response'.user
       IN  /\ RowsOfOthers(u, transactions', owner') = RowsOfOthers(u, transactions, owner)
           /\ RowsOfOthers(u, transfers', owner') = RowsOfOthers(u, transfers, owner)
           /\ RowsOfOthers(u, credits', owner') = RowsOfOthers(u, credits, owner)
           /\ BanksOfOthers(u, banks') = BanksOfOthers(u, banks)
           /\ \A r \in response'.data : r.user_id = u]_vars

RECURSIVE SumOfCredits(_, _, _, _)
\* The sum of the amounts of the first n credits of the list that are of the
\* person and of the type.
SumOfCredits(list, n, person, type) ==
    IF n = 0 THEN 0
    ELSE SumOfCredits(list, n - 1, person, type)
         + (IF list[n].person_name = person /\ list[n].type = type
            THEN list[n].amount ELSE 0)

(* C22: the per-person credit summary has exactly one entry per distinct   *)
(* person_name of the credit list, the entry's net is the sum of the       *)
(* person's owe_me amounts less the sum of the person's i_owe amounts, and *)
(* the entries are in the order of descending absolute net.                *)
C22_PersonSummary ==
    \A s \in Sessions :
        LET list == ListOf(creditList[s])
            summary == sortedPersonTotals[s]
            n == Len(list)
        IN  /\ {summary[i].name : i \in 1 .. Len(summary)} =
                  {list[i].person_name : i \in 1 .. n}
            /\ \A i, j \in 1 .. Len(summary) :
                  summary[i].name = summary[j].name => i = j
            /\ \A i \in 1 .. Len(summary) :
                  summary[i].net = SumOfCredits(list, n, summary[i].name, "owe_me")
                                     - SumOfCredits(list, n, summary[i].name, "i_owe")
            /\ \A i, j \in 1 .. Len(summary) :
                  i < j => Abs(summary[i].net) >= Abs(summary[j].net)

\* Asha, listed first, is owed 200 and owes 500, a net of -300; Ravi, listed
\* after her, is owed 500 and comes first in the summary.
C22_Witness ==
    /\ Len(creditList[1]) = 3
    /\ creditList[1][1].person_name = "Asha"
    /\ Len(sortedPersonTotals[1]) = 2
    /\ sortedPersonTotals[1][1] = [name |-> "Ravi", owedToMe |-> 500, iOwe |-> 0, net |-> 500]
    /\ sortedPersonTotals[1][2] = [name |-> "Asha", owedToMe |-> 200, iOwe |-> 500,
                                   net |-> 0 - 300]

\* The files whose text is a JSON array.
SequenceFiles == {"[]", "[{\"amount\": 200}]"}

(* C23: an import leaves the banks with their balances, the transactions,  *)
(* the transfers and the credits unchanged whatever the file holds, and a  *)
(* file that does not hold a sequence gets the error notification.         *)
C23_ImportChangesNothing ==
    [][\A file \in ImportFiles \ {""} :
          Reports_handleImport(1, file)
              => /\ UNCHANGED <<banks, transactions, transfers, credits>>
                 /\ file \notin SequenceFiles => toast'[1] = "Error importing data"
                 /\ file \in SequenceFiles => toast'[1] = "Data imported successfully"]_vars

\* An object that is no array was refused, next to a ledger and credits that
\* are not empty.
C23_Witness ==
    /\ toast[1] = "Error importing data"
    /\ transactions # << >>
    /\ credits # << >>
    /\ banks # OpeningBalance

\* The last completed invocation is an Update Transaction that moved the row to
\* another bank.
MovedBank ==
    /\ LastIs("updateTransaction") /\ Quiescent
    /\ Last.frame.editingTransaction.bank_id # Last.frame.formData.bank_id

(* C24: an Update Transaction that moves the row from bank A to bank B      *)
(* leaves A's balance as it was, sets B's balance to B's balance less the  *)
(* old signed effect plus the new signed effect, and the stored row then   *)
(* references B.                                                           *)
C24_BankChangeKeepsOldBank ==
    MovedBank
        => LET old == Last.frame.editingTransaction
               new == Last.frame.formData
               pre == Last.frame.preBanks
           IN  /\ banks[old.bank_id] = pre[old.bank_id]
               /\ banks[new.bank_id] =
                      pre[new.bank_id] - SignedEffect(old.type, old.amount)
                          + SignedEffect(new.type, new.amount)
               /\ Last.id \in DOMAIN transactions
               /\ transactions[Last.id].bank_id = new.bank_id
               /\ OthersUnchanged(pre, {new.bank_id})

\* An income of 500 on Checking moved to Savings as an income of 500: Checking
\* keeps 1500 and Savings stays at 200.
C24_Witness ==
    /\ LastTwoAre("createTransaction", "updateTransaction") /\ MovedBank
    /\ Last.frame.editingTransaction =
           [id |-> Last.id, type |-> "income", amount |-> 500, bank_id |-> "Checking"]
    /\ Last.frame.formData.type = "income" /\ Last.frame.formData.amount = 500
    /\ Last.frame.formData.bank_id = "Savings"
    /\ banks.Checking = 1500
    /\ banks.Savings = 200
    /\ transactions[Last.id].bank_id = "Savings"

\* Where a handler stands when its next call reads a bank's balance, and when
\* its next call writes one.
BalanceReadPcs ==
    {"tx_create_select", "tx_update_select", "tx_delete_select",
     "tr_create_from", "tr_create_to", "tr_delete_from", "tr_delete_to"}

BalanceWritePcs ==
    {"tx_create_update", "tx_update_update", "tx_delete_update",
     "tr_create_from_update", "tr_create_to_update",
     "tr_delete_from_update", "tr_delete_to_update"}

(* C25: in every transaction and transfer mutation the row write comes     *)
(* first: the step that issues it touches no balance, balances are read    *)
(* and written only by a handler that got past a row write that returned   *)
(* no error, and a row write that returned an error ends the handler with  *)
(* every balance unchanged and none read.                                  *)
C25_RowWriteFirst ==
    [][/\ ops' # ops => (pc[1] = "idle" /\ UNCHANGED banks)
       /\ banks' # banks => pc[1] \in BalanceWritePcs
       /\ pc'[1] \in BalanceReadPcs \cup BalanceWritePcs
             => \/ pc[1] \in BalanceReadPcs \cup BalanceWritePcs
                \/ pc[1] = "idle" /\ ops' # ops /\ failures' = failures
       /\ (ops' # ops /\ failures' # failures)
             => /\ UNCHANGED <<banks, frame>>
                /\ pc'[1] = "idle"
                /\ toast'[1] \in {"Error", "Error deleting transaction",
                                  "Error deleting transfer"}]_vars

\* A row write returned an error after an earlier mutation had changed a
\* balance: the balances are those the handler started with.
C25_Witness ==
    /\ Len(hist) >= 2 /\ Quiescent
    /\ Last.outcome = "error"
    /\ Last.frame.failed = {"rowWrite"}
    /\ Last.frame.preBanks # OpeningBalance
    /\ banks = Last.frame.preBanks
    /\ Before.outcome = "success"

\* The table a completed Delete took its row from, as it was when the Delete
\* started.
TableBefore(e) ==
    IF e.h = "deleteTransaction" THEN e.frame.preTransactions ELSE e.frame.preTransfers

\* The last two completed invocations are Deletes of the same entry, the second
\* started when the first had taken the row and its effect out of the store.
DeletedTwice ==
    /\ Len(hist) >= 2 /\ Quiescent
    /\ Last.h \in {"deleteTransaction", "deleteTransfer"}
    /\ Before.h = Last.h /\ Before.id = Last.id
    /\ Before.outcome = "success" /\ Last.outcome = "success"
    /\ Last.id \in DOMAIN TableBefore(Before)
    /\ Last.id \notin DOMAIN TableBefore(Last)
    /\ Last.frame.preBanks # Before.frame.preBanks

(* C26: when Delete is invoked twice for the same entry, the second        *)
(* invocation finds no row to delete and leaves every bank balance as it   *)
(* found it: the entry's effect is reversed at most once.                  *)
C26_ReversedAtMostOnce ==
    DeletedTwice => banks = Last.frame.preBanks

\* The row a completed Update or Delete Transaction took the old type, amount
\* and bank from: the one its session's list showed.
OldRowOf(e) ==
    IF e.h = "updateTransaction" THEN e.frame.editingTransaction ELSE e.frame.transaction

(* C27: in Update Transaction and Delete Transaction the old type, amount   *)
(* and bank the reversal is computed from are those the row holds in the   *)
(* store at the moment it is updated or deleted.                           *)
C27_ReversalFromStoredRow ==
    (/\ Len(hist) >= 1
     /\ Last.h \in {"updateTransaction", "deleteTransaction"}
     /\ Last.outcome = "success"
     /\ Last.id \in DOMAIN Last.frame.preTransactions)
        => LET row == Last.frame.preTransactions[Last.id]
           IN  /\ OldRowOf(Last).type = row.type
               /\ OldRowOf(Last).amount = row.amount
               /\ OldRowOf(Last).bank_id = row.bank_id

\* The last completed invocation is a bank edit submitted with the balance
\* field as handleEdit filled it.
EditedWithoutBalanceChange ==
    /\ LastIs("updateBank")
    /\ \E bank \in Last.frame.editingBank :
          Last.frame.formData.balance = toString(bank.balance)

(* C28: a bank edit submitted without a change of its balance field leaves *)
(* the bank's stored balance equal to the value the store holds when the   *)
(* form is submitted.                                                      *)
C28_EditKeepsBalance ==
    [][(/\ \E s \in Sessions : pc[s] = "idle" /\ pc'[s] = "bk_fetch"
        /\ EditedWithoutBalanceChange')
          => banks'[Last'.frame.bank] = banks[Last'.frame.bank]]_vars

\* The sum of the balances of the banks `ids` of the table `table`.
RECURSIVE SumOfBalances(_, _)
SumOfBalances(table, ids) ==
    IF ids = {} THEN 0
    ELSE LET b == CHOOSE x \in ids : TRUE
         IN  table[b] + SumOfBalances(table, ids \ {b})

TotalOf(table) == SumOfBalances(table, DOMAIN table)

(* C29: every completed Create Transfer and every completed Delete         *)
(* Transfer leaves the sum of the balances of all banks unchanged.         *)
C29_TransfersKeepTotal ==
    ((LastIs("createTransfer") \/ LastIs("deleteTransfer")) /\ Quiescent)
        => /\ DOMAIN banks = DOMAIN Last.frame.preBanks
           /\ TotalOf(banks) = TotalOf(Last.frame.preBanks)

\* A transfer was created and then deleted, both moving balances: the total is
\* the 1230 of the opening balances.
C29_Witness ==
    /\ LastTwoAre("createTransfer", "deleteTransfer") /\ Quiescent
    /\ Before.frame.preBanks = OpeningBalance
    /\ Last.frame.preBanks # OpeningBalance
    /\ banks = OpeningBalance
    /\ TotalOf(banks) = 1230

(* C30: after any sequence of completed transaction and transfer           *)
(* operations, run one at a time with every store call succeeding and no   *)
(* bank deleted, the sum of all balances is the sum of the opening         *)
(* balances plus the amounts of the stored incomes less the amounts of the *)
(* stored expenses, also after updates that moved a row to another bank.   *)
C30_TotalMatchesLedger ==
    Quiescent
        => totalBalance(banks) =
               totalBalance(OpeningBalance) + totalIncome(transactions)
                   - totalExpenses(transactions)

\* An income of 500 on Checking was moved to Savings as an expense of 200, so
\* that no bank's own balance matches its rows, and the total is 1230 - 200.
C30_Witness ==
    /\ LastTwoAre("createTransaction", "updateTransaction") /\ MovedBank
    /\ Last.frame.editingTransaction.type = "income"
    /\ Last.frame.editingTransaction.amount = 500
    /\ Last.frame.formData.type = "expense" /\ Last.frame.formData.amount = 200
    /\ banks.Checking = 1500 /\ banks.Savings = 0 - 500
    /\ totalIncome(transactions) = 0 /\ totalExpenses(transactions) = 200
    /\ totalBalance(banks) = 1030
====
